---- MODULE Spec2Model ----
(***************************************************************************)
(* Model of the document extraction service (app/extractor.py):           *)
(*   - chunk_document, get_cache_key, chunk_document_cached and the       *)
(*     module-level _chunk_cache;                                         *)
(*   - extract_bulk_questions_with_gpt: one concurrent process_chunk task *)
(*     per chunk, the asyncio.gather barrier, the cross-chunk merge and   *)
(*     the final formatting.                                              *)
(*                                                                         *)
(* A text is a run-length encoded string: a sequence of runs              *)
(* [k |-> kind, n |-> length] in which neighbouring runs have different   *)
(* kinds.  Kinds: "w" ordinary prose, "x" dense symbols, "s" spaces,      *)
(* "nl" line breaks.  The encoding keeps the program's own constants      *)
(* (4 characters per token, 500 characters of lookahead, 1000 characters  *)
(* of key prefix, 200 tokens of overlap) usable as they are.              *)
(***************************************************************************)
EXTENDS Integers, Sequences, FiniteSets, TLC

VARIABLES
    chunk_cache,      \* _chunk_cache: insertion-ordered <<[key, chunks]>>
    c_pc,             \* chunker call: "idle" | "loop" | "ret"
    c_mode,           \* "direct" (chunk_document) | "cached" (chunk_document_cached)
    c_caller,         \* "api" | "bulk"
    document_text,    \* argument of the running chunker call
    chunk_size_tokens,
    overlap_tokens,
    start,            \* window cursor of chunk_document
    chunks,           \* list under construction in chunk_document
    c_ret,            \* value returned by the last chunker call
    c_hit,            \* whether the last cached call was answered from the cache
    c_tick,           \* parity of the while-loop iterations of the running call
    log,              \* completed probe calls: [text, size, overlap, chunks]
    probes,           \* number of probe calls made
    fills,            \* number of filler calls made
    b_pc,             \* bulk call: "idle" | "chunking" | "gather" | "returned" | "raised"
    b_error,          \* "none" | "ValueError" (no API key) | "TypeError" (merge)
    questions,        \* argument questions of the running bulk call
    file_type,        \* argument file_type of the running bulk call
    tasks,            \* one process_chunk task per chunk
    responses,        \* per chunk, the outcome of its model call once it has settled
    completed,        \* the chunk indices in the order their tasks finished
    all_results,      \* merged dict: question id -> best answer
    formatted_results, \* the list the bulk call returns
    f_pc,             \* single-field call: "idle" | "chunking" | "loop" | "awaiting" | "returned" | "raised"
    f_error,          \* "none" | "ValueError" (no API key)
    f_line_map,       \* argument line_to_location_map: "none" | "map"
    f_file_type,      \* argument file_type: "none" | "pdf" | "docx"
    f_tasks,          \* one entry per chunk: the state of its model call and the response
    f_idx,            \* the chunk the for loop is at, counted from 1
    f_ret,            \* the pair the single-field call returns
    r_pc,             \* request: "idle" | "auth" | "files" | "questions" | "call" | "done"
    r_endpoint,       \* "extract" | "extract_file" | "extract_file_bulk"
    r_token,          \* the bearer token of the request
    r_secret,         \* whether JWT_SECRET_KEY is set
    r_files,          \* the uploaded files, in order
    r_text,           \* document_text of the /extract payload
    r_questions,      \* the questions form field of the bulk endpoint
    r_read,           \* number of uploaded files whose text has been extracted
    r_status,         \* HTTP status of the response, 0 while there is none
    p_pc,             \* a record-handling call: "idle" | "bulk" | "field" | "bulk_converted" | "field_converted"
    p_args,           \* the arguments of that call
    p_result,         \* what process_chunk, or the try block of the single-field loop, produced
    p_out             \* the locations the endpoint puts into its response for p_result

chunk_vars == <<chunk_cache, c_pc, c_mode, c_caller, document_text, chunk_size_tokens,
                overlap_tokens, start, chunks, c_ret, c_hit, c_tick>>
harness_vars == <<log, probes, fills>>
bulk_vars == <<b_pc, b_error, questions, file_type, tasks, responses, completed, all_results,
               formatted_results>>
field_vars == <<f_pc, f_error, f_line_map, f_file_type, f_tasks, f_idx, f_ret>>
req_vars == <<r_pc, r_endpoint, r_token, r_secret, r_files, r_text, r_questions, r_read,
              r_status>>
proc_vars == <<p_pc, p_args, p_result, p_out>>

(***************************************************************************)
(* Program constants                                                       *)
(***************************************************************************)
CHARS_PER_TOKEN == 4
LOOKAHEAD_CHARS == 500
KEY_PREFIX_CHARS == 1000
CACHE_LIMIT == 10
ENCODING_NAME == "o200k_base"

(***************************************************************************)
(* Bounds of the model                                                     *)
(***************************************************************************)
\* Entries kept of a chunk list; no terminating call of the modelled inputs
\* produces this many, a call that never terminates stops recording here.
MaxChunkList == 8
\* Iterations unrolled by the function form of chunk_document.
MaxIter == 8
\* Probe and filler calls of chunk_document_cached in one behaviour.
MaxProbeCalls == 3
MaxFill == 10

(***************************************************************************)
(* Run-length encoded strings                                              *)
(***************************************************************************)
Min2(a, b) == IF a <= b THEN a ELSE b
Max2(a, b) == IF a >= b THEN a ELSE b
CeilDiv(a, b) == (a + b - 1) \div b
SetMin(S) == CHOOSE x \in S : \A y \in S : x <= y
SetMax(S) == CHOOSE x \in S : \A y \in S : x >= y

Run(k, n) == [k |-> k, n |-> n]
NL == <<Run("nl", 1)>>

\* len(text)
RECURSIVE TLen(_)
TLen(t) ==
    IF t = <<>> THEN 0 ELSE Head(t).n + TLen(Tail(t))

\* text[:m]
RECURSIVE Take(_, _)
Take(t, m) ==
    IF m <= 0 \/ t = <<>> THEN <<>>
    ELSE IF Head(t).n <= m THEN <<Head(t)>> \o Take(Tail(t), m - Head(t).n)
    ELSE <<Run(Head(t).k, m)>>

\* text[m:]
RECURSIVE Drop(_, _)
Drop(t, m) ==
    IF m <= 0 \/ t = <<>> THEN t
    ELSE IF Head(t).n <= m THEN Drop(Tail(t), m - Head(t).n)
    ELSE <<Run(Head(t).k, Head(t).n - m)>> \o Tail(t)

\* text[a:b] for 0 <= a, 0 <= b
Slice(t, a, b) == Take(Drop(t, a), b - a)

\* a + b
Cat(a, b) ==
    IF a = <<>> THEN b
    ELSE IF b = <<>> THEN a
    ELSE IF a[Len(a)].k = b[1].k
         THEN SubSeq(a, 1, Len(a) - 1) \o <<Run(b[1].k, a[Len(a)].n + b[1].n)>> \o Tail(b)
         ELSE a \o b

\* Offset of the first character of run i.
RunStart(t, i) == TLen(SubSeq(t, 1, i - 1))

\* text.find("\n", p): the first line break at an offset >= p, or -1.
Find(t, p) ==
    LET hits == { Max2(RunStart(t, i), p) :
                    i \in { j \in 1..Len(t) : t[j].k = "nl" /\ RunStart(t, j) + t[j].n > p } }
    IN  IF hits = {} THEN -1 ELSE SetMin(hits)

\* text.rfind("\n", 0, e): the last line break at an offset < e, or -1.
RFind(t, e) ==
    LET hits == { Min2(RunStart(t, i) + t[i].n, e) - 1 :
                    i \in { j \in 1..Len(t) : t[j].k = "nl" /\ RunStart(t, j) < e } }
    IN  IF hits = {} THEN -1 ELSE SetMax(hits)

\* bool(chunk.strip()): some character is not white space.
NonBlank(t) == \E i \in 1..Len(t) : t[i].k \notin {"s", "nl"}

\* chunk.splitlines(): the pieces between line breaks, a trailing empty piece dropped.
RECURSIVE SplitFrom(_, _, _)
SplitFrom(t, cur, out) ==
    IF t = <<>> THEN (IF cur = <<>> THEN out ELSE Append(out, cur))
    ELSE IF Head(t).k = "nl"
         THEN SplitFrom(Tail(t), <<>>,
                        Append(out, cur) \o [i \in 1..(Head(t).n - 1) |-> <<>>])
         ELSE SplitFrom(Tail(t), Append(cur, Head(t)), out)

splitlines(t) == SplitFrom(t, <<>>, <<>>)

(***************************************************************************)
(* num_tokens: len(enc.encode(text)).  The tokenizer is a library; the     *)
(* model counts a token per 4 characters of a prose run, a token per       *)
(* character of a dense run or of a line break, and a token per 16         *)
(* characters of a run of spaces.                                          *)
(***************************************************************************)
RunTokens(r) ==
    CASE r.k = "w"  -> CeilDiv(r.n, 4)
      [] r.k = "x"  -> r.n
      [] r.k = "s"  -> CeilDiv(r.n, 16)
      [] r.k = "nl" -> r.n

RECURSIVE num_tokens(_)
num_tokens(t) ==
    IF t = <<>> THEN 0 ELSE RunTokens(Head(t)) + num_tokens(Tail(t))

(***************************************************************************)
(* chunk_document                                                          *)
(***************************************************************************)
\* Variant: a text of exactly chunk_size_tokens tokens goes through the window loop.
FitsOneChunk_Strict(text, size) == num_tokens(text) < size

\* if doc_tokens <= chunk_size_tokens: return [document_text]
FitsOneChunk(text, size) == num_tokens(text) <= size

max_chunk_chars(size) == size * CHARS_PER_TOKEN

\* The end of the window that starts at s: the tentative cut, moved behind the
\* next line break when one lies within the lookahead.
WindowEnd(text, size, s) ==
    LET e0 == Min2(TLen(text), s + max_chunk_chars(size))
        next_nl == IF e0 < TLen(text) THEN Find(text, e0) ELSE -1
    IN  IF e0 < TLen(text) /\ next_nl # -1 /\ next_nl < e0 + LOOKAHEAD_CHARS
        THEN next_nl + 1
        ELSE e0

\* The line-by-line re-split of a window that exceeds the token budget.
\* subn is len(sub).
RECURSIVE SplitByLines(_, _, _, _, _, _)
SplitByLines(lines, i, subn, sub_text, out, size) ==
    IF i > Len(lines)
    THEN (IF subn > 0 THEN Append(out, sub_text) ELSE out)
    ELSE LET l == lines[i]
             new_sub_text == Cat(Cat(sub_text, IF sub_text # <<>> THEN NL ELSE <<>>), l)
         IN  IF num_tokens(new_sub_text) >= size /\ subn > 0
             THEN SplitByLines(lines, i + 1, 1, l, Append(out, sub_text), size)
             ELSE SplitByLines(lines, i + 1, subn + 1, new_sub_text, out, size)

\* Variant: a window over the budget is emitted as it is, without the re-split.
WindowChunks_NoResplit(chunk, size) ==
    IF ~NonBlank(chunk) THEN <<>> ELSE <<chunk>>

\* The chunks one window contributes.
WindowChunks(chunk, size) ==
    IF ~NonBlank(chunk) THEN <<>>
    ELSE IF num_tokens(chunk) > size
         THEN SplitByLines(splitlines(chunk), 1, 0, <<>>, <<>>, size)
         ELSE <<chunk>>

\* Variant: the start is moved back by the overlap and left where it lands.
NextStart_NoSnap(text, overlap, end) ==
    IF overlap > 0 /\ end < TLen(text)
    THEN Max2(0, end - overlap * CHARS_PER_TOKEN)
    ELSE end

\* The start of the next window.
NextStart(text, overlap, end) ==
    IF overlap > 0 /\ end < TLen(text)
    THEN LET s0 == Max2(0, end - overlap * CHARS_PER_TOKEN)
             prev_nl == IF s0 > 0 THEN RFind(text, s0) ELSE -1
         IN  IF s0 > 0 /\ prev_nl # -1 THEN prev_nl + 1 ELSE s0
    ELSE end

\* chunks.append / chunks.extend, recorded up to MaxChunkList entries.
Record(list, new) ==
    IF Len(list) >= MaxChunkList THEN list ELSE list \o new

\* One iteration of the while loop: the list and the cursor after it.
ChunkStep(text, size, overlap, s, list) ==
    LET end == WindowEnd(text, size, s)
        chunk == Slice(text, s, end)
    IN  [chunks |-> Record(list, WindowChunks(chunk, size)),
         start |-> NextStart(text, overlap, end)]

\* chunk_document as a function, for calls that return within MaxIter iterations.
RECURSIVE ChunkLoop(_, _, _, _, _, _)
ChunkLoop(text, size, overlap, s, list, fuel) ==
    IF fuel = 0 \/ s >= TLen(text) THEN list
    ELSE LET st == ChunkStep(text, size, overlap, s, list)
         IN  ChunkLoop(text, size, overlap, st.start, st.chunks, fuel - 1)

chunk_document(text, size, overlap) ==
    IF FitsOneChunk(text, size) THEN <<text>>
    ELSE ChunkLoop(text, size, overlap, 0, <<>>, MaxIter)

(***************************************************************************)
(* get_cache_key and the cache                                             *)
(***************************************************************************)
\* md5 is taken as injective: the key is what is hashed plus the parameters.
get_cache_key(text, size, overlap, enc) ==
    << Slice(text, 0, KEY_PREFIX_CHARS), TLen(text), size, overlap, enc >>

CacheHas(cache, key) == \E i \in 1..Len(cache) : cache[i].key = key
CacheGet(cache, key) == cache[CHOOSE i \in 1..Len(cache) : cache[i].key = key].chunks

\* Variant: a full cache drops the entry stored last.
CacheStore_EvictNewest(cache, key, val) ==
    LET kept == IF Len(cache) >= CACHE_LIMIT THEN SubSeq(cache, 1, Len(cache) - 1) ELSE cache
    IN  Append(kept, [key |-> key, chunks |-> val])

\* if len(_chunk_cache) >= 10: delete the first key; then store.
CacheStore(cache, key, val) ==
    LET kept == IF Len(cache) >= CACHE_LIMIT THEN Tail(cache) ELSE cache
    IN  Append(kept, [key |-> key, chunks |-> val])

(***************************************************************************)
(* Inputs                                                                  *)
(***************************************************************************)
\* Texts of the direct calls of chunk_document.
TxtEmpty == <<>>
TxtBlank == <<Run("s", 3)>>
TxtWord == <<Run("x", 2)>>
TxtLines == <<Run("x", 3), Run("nl", 1), Run("x", 6), Run("nl", 1), Run("x", 2)>>
TxtBlankLine == <<Run("nl", 1), Run("x", 9), Run("nl", 2), Run("s", 2), Run("nl", 1), Run("x", 3)>>
TxtProse == <<Run("w", 30), Run("nl", 1), Run("w", 7), Run("s", 1), Run("w", 9)>>
\* A line break followed by a line longer than the lookahead.
TxtLongLine == <<Run("x", 2), Run("nl", 1), Run("w", 900), Run("nl", 1), Run("w", 40)>>
\* A long first line and a short last one.
TxtShortTail == <<Run("w", 30), Run("nl", 1), Run("w", 4)>>
SmallTexts == {TxtEmpty, TxtBlank, TxtWord, TxtLines, TxtBlankLine, TxtProse, TxtShortTail}
DirectArgs ==
    (SmallTexts \X {1, 2, 3, 8} \X {0, 1, 2})
    \cup ({TxtLongLine} \X {60, 300} \X {0, 1, 20})

\* Two texts with the same first 1000 characters and the same length.
TxtA == <<Run("w", 1200), Run("nl", 1), Run("w", 399)>>
TxtB == <<Run("w", 1400), Run("nl", 1), Run("w", 199)>>
ProbeTexts == {TxtA, TxtB}
ProbeSize == 300
ProbeOverlap == 0
\* Filler calls: the same short text under chunk sizes FillBase, FillBase + 1, ...
TxtFill == <<Run("w", 8)>>
FillBase == 50

(***************************************************************************)
(* The chunker call as a state machine                                     *)
(***************************************************************************)
\* The state after import: nothing cached, no call running.
InitEmpty ==
    /\ chunk_cache = <<>>
    /\ c_pc = "idle"
    /\ c_mode = "direct"
    /\ c_caller = "api"
    /\ document_text = <<>>
    /\ chunk_size_tokens = 0
    /\ overlap_tokens = 0
    /\ start = 0
    /\ chunks = <<>>
    /\ c_ret = <<>>
    /\ c_hit = FALSE
    /\ c_tick = 0
    /\ log = {}
    /\ probes = 0
    /\ fills = 0
    /\ b_pc = "idle"
    /\ b_error = "none"
    /\ questions = <<>>
    /\ file_type = "pdf"
    /\ tasks = <<>>
    /\ responses = <<>>
    /\ completed = <<>>
    /\ all_results = [n \in {} |-> [t |-> "null"]]
    /\ formatted_results = <<>>
    /\ f_pc = "idle"
    /\ f_error = "none"
    /\ f_line_map = "none"
    /\ f_file_type = "none"
    /\ f_tasks = <<>>
    /\ f_idx = 1
    /\ f_ret = [value |-> [t |-> "null"], location |-> [t |-> "null"]]
    /\ r_pc = "idle"
    /\ r_endpoint = "none"
    /\ r_token = [signature |-> "none", expired |-> FALSE, sub |-> [t |-> "absent"]]
    /\ r_secret = TRUE
    /\ r_files = <<>>
    /\ r_text = <<>>
    /\ r_questions = [json |-> "none", items |-> <<>>]
    /\ r_read = 0
    /\ r_status = 0
    /\ p_pc = "idle"
    /\ p_args = <<>>
    /\ p_result = <<>>
    /\ p_out = <<>>

\* chunk_document returns result; chunk_document_cached stores it before returning.
ReturnChunks(mode, text, size, overlap, result) ==
    /\ c_ret' = result
    /\ c_pc' = "ret"
    /\ chunk_cache' = IF mode = "cached"
                      THEN CacheStore(chunk_cache,
                                      get_cache_key(text, size, overlap, ENCODING_NAME), result)
                      ELSE chunk_cache

\* Entry of chunk_document: the single-chunk return, or the window loop.
EnterChunkDocument(mode, text, size, overlap) ==
    /\ document_text' = text
    /\ chunk_size_tokens' = size
    /\ overlap_tokens' = overlap
    /\ c_mode' = mode
    /\ c_hit' = FALSE
    /\ c_tick' = 0
    /\ start' = 0
    /\ chunks' = <<>>
    /\ IF FitsOneChunk(text, size)
       THEN ReturnChunks(mode, text, size, overlap, <<text>>)
       ELSE /\ c_pc' = (IF 0 < TLen(text) THEN "loop" ELSE "ret")
            /\ c_ret' = <<>>
            /\ chunk_cache' = chunk_cache

\* Entry of chunk_document_cached: a hit returns the stored list.
EnterChunkDocumentCached(text, size, overlap) ==
    LET key == get_cache_key(text, size, overlap, ENCODING_NAME)
    IN  IF CacheHas(chunk_cache, key)
        THEN /\ c_ret' = CacheGet(chunk_cache, key)
             /\ c_pc' = "ret"
             /\ c_hit' = TRUE
             /\ c_mode' = "cached"
             /\ document_text' = text
             /\ chunk_size_tokens' = size
             /\ overlap_tokens' = overlap
             /\ UNCHANGED <<chunk_cache, start, chunks, c_tick>>
        ELSE EnterChunkDocument("cached", text, size, overlap)

\* One iteration of the while loop of chunk_document.
ChunkIter ==
    /\ c_pc = "loop"
    /\ LET st == ChunkStep(document_text, chunk_size_tokens, overlap_tokens, start, chunks)
       IN  /\ chunks' = st.chunks
           /\ c_tick' = 1 - c_tick
           /\ start' = st.start
           /\ IF st.start >= TLen(document_text)
              THEN ReturnChunks(c_mode, document_text, chunk_size_tokens, overlap_tokens,
                                st.chunks)
              ELSE UNCHANGED <<c_pc, c_ret, chunk_cache>>
    /\ UNCHANGED <<c_mode, c_caller, document_text, chunk_size_tokens, overlap_tokens, c_hit>>
    /\ UNCHANGED <<harness_vars, bulk_vars, field_vars, req_vars, proc_vars>>

\* A direct call chunk_document(text, size, overlap).
DirectCall ==
    /\ c_pc = "idle"
    /\ \E a \in DirectArgs : EnterChunkDocument("direct", a[1], a[2], a[3])
    /\ c_caller' = "api"
    /\ UNCHANGED <<harness_vars, bulk_vars, field_vars, req_vars, proc_vars>>

\* A probe call chunk_document_cached(text, ProbeSize, ProbeOverlap).
ProbeCall ==
    /\ c_pc = "idle"
    /\ probes < MaxProbeCalls
    /\ \E text \in ProbeTexts : EnterChunkDocumentCached(text, ProbeSize, ProbeOverlap)
    /\ c_caller' = "api"
    /\ probes' = probes + 1
    /\ UNCHANGED <<log, fills, bulk_vars, field_vars, req_vars, proc_vars>>

\* A filler call chunk_document_cached(TxtFill, FillBase + fills, 0): a fresh key each time.
FillCall ==
    /\ c_pc = "idle"
    /\ fills < MaxFill
    /\ EnterChunkDocumentCached(TxtFill, FillBase + fills, 0)
    /\ c_caller' = "api"
    /\ fills' = fills + 1
    /\ UNCHANGED <<log, probes, bulk_vars, field_vars, req_vars, proc_vars>>

\* The caller receives the list.
ApiReturn ==
    /\ c_pc = "ret"
    /\ c_caller = "api"
    /\ c_pc' = "idle"
    /\ log' = IF c_mode = "cached" /\ document_text \in ProbeTexts
              THEN log \cup {[text |-> document_text, size |-> chunk_size_tokens,
                              overlap |-> overlap_tokens, chunks |-> c_ret]}
              ELSE log
    /\ UNCHANGED <<chunk_cache, c_mode, c_caller, document_text, chunk_size_tokens,
                   overlap_tokens, start, chunks, c_ret, c_hit, c_tick, probes, fills, bulk_vars, field_vars, req_vars, proc_vars>>

(***************************************************************************)
(* extract_bulk_questions_with_gpt                                         *)
(***************************************************************************)
MAX_TOKENS_PER_REQUEST == 25000
RESPONSE_TOKENS_ESTIMATE == 5000
BULK_OVERLAP_TOKENS == 200
\* num_tokens(prompt_template) and num_tokens(system message): what the
\* tokenizer returns for the two fixed strings.
TEMPLATE_TOKENS == 420
SYSTEM_TOKENS == 13

\* Questions in one batch.
MaxQuestions == 2

\* JSON values of a model response: null, an absent key, strings, booleans, numbers.
JNull == [t |-> "null"]
JAbsent == [t |-> "absent"]
JStr(x) == [t |-> "str", s |-> x]
JBool(x) == [t |-> "bool", b |-> x]
JNum(x) == [t |-> "num", n |-> x]

\* Confidences are counted in tenths: JNum(9) is 0.9.
\* dict.get(key, default): the default only for an absent key.
GetOr(v, default) == IF v.t = "absent" THEN default ELSE v

\* bool(v) of a JSON value.
Truthy(v) ==
    CASE v.t = "null"   -> FALSE
      [] v.t = "absent" -> FALSE
      [] v.t = "str"    -> v.s # ""
      [] v.t = "bool"   -> v.b
      [] v.t = "num"    -> v.n # 0

\* str(n) of the numbers 0..9.
Digits == <<"0", "1", "2", "3", "4", "5", "6", "7", "8", "9">>

\* s.lower() of the strings of the model.
Lower(x) ==
    CASE x = "Monthly" -> "monthly"
      [] x = "MONTHLY" -> "monthly"
      [] x = "Other"   -> "other"
      [] x = "Yes"     -> "yes"
      [] x = "No"      -> "no"
      [] x = "Weekly"  -> "weekly"
      [] x = ".PDF"    -> ".pdf"
      [] x = ".DOCX"   -> ".docx"
      [] x = ".TXT"    -> ".txt"
      [] OTHER         -> x

\* str(v) of a non-null JSON value.
PyStr(v) ==
    CASE v.t = "str"  -> v
      [] v.t = "bool" -> JStr(IF v.b THEN "True" ELSE "False")
      [] v.t = "num"  -> JStr(Digits[v.n + 1])

\* A question: the id, the text, the type and the token count of its payload item.
Question(id, text, type, options) ==
    [id |-> id, text |-> text, type |-> type, options |-> options, toks |-> 30]

QuestionPool ==
    { Question(1, "Q1", "text", <<>>), Question(2, "Q2", "yesno", <<>>) }

RECURSIVE SeqsUpTo(_, _)
SeqsUpTo(S, n) ==
    IF n = 0 THEN {<<>>}
    ELSE LET shorter == SeqsUpTo(S, n - 1)
         IN  shorter \cup { Append(q, x) : q \in shorter, x \in S }

Batches == SeqsUpTo(QuestionPool, MaxQuestions)

\* num_tokens(json.dumps(q_payload))
RECURSIVE questions_tokens(_)
questions_tokens(qs) ==
    IF qs = <<>> THEN 1 ELSE Head(qs).toks + questions_tokens(Tail(qs))

max_doc_tokens_per_chunk(qs) ==
    MAX_TOKENS_PER_REQUEST - questions_tokens(qs) - TEMPLATE_TOKENS - SYSTEM_TOKENS
        - RESPONSE_TOKENS_ESTIMATE

\* Documents of the bulk calls: one chunk, two chunks, three chunks, and a short
\* line followed by a line longer than a window.
DocOne == <<Run("w", 40)>>
DocTwo == <<Run("w", 90000)>>
DocThree == <<Run("w", 70000), Run("nl", 1), Run("w", 30000)>>
DocLongLine == <<Run("w", 10), Run("nl", 1), Run("w", 90000)>>

\* An uploaded file: its name as the stem and the part from the last dot on, the
\* number of characters of the name, the text its bytes hold, and whether the
\* PDF/DOCX reader accepts the bytes.
Upload(stem, ext, chars, text, readable) ==
    [stem |-> stem, ext |-> ext, chars |-> chars, text |-> text, readable |-> readable]

FileA == Upload("a", ".pdf", 5, DocOne, TRUE)
FileB == Upload("b", ".DOCX", 6, <<Run("w", 8)>>, TRUE)
FileTxt == Upload("notes", ".txt", 9, DocOne, TRUE)
FileCorrupt == Upload("c", ".pdf", 5, <<>>, FALSE)

\* extract_text_from_file_with_location(file.filename, file_bytes): the text, the
\* line map and the file type, or the exception raised.
FileRead(raises, text, line_map, ftype) ==
    [raises |-> raises, text |-> text, line_map |-> line_map, file_type |-> ftype]

extract_text_from_file_with_location(file) ==
    LET name_ext == Lower(file.ext)
        line_map == IF NonBlank(file.text) THEN "map" ELSE "empty"
    IN  IF name_ext = ".pdf"
        THEN IF file.readable THEN FileRead("none", file.text, line_map, "pdf")
             ELSE FileRead("Exception", <<>>, "empty", "pdf")
        ELSE IF name_ext = ".docx"
        THEN IF file.readable THEN FileRead("none", file.text, line_map, "docx")
             ELSE FileRead("Exception", <<>>, "empty", "docx")
        ELSE FileRead("ValueError", <<>>, "empty", "none")

\* doc_marker + text of one file: "\n\n[Document: <name>]\n" followed by the text.
MarkedText(file) ==
    Cat(<<Run("nl", 2), Run("w", 12 + file.chars), Run("nl", 1)>>,
        extract_text_from_file_with_location(file).text)

\* "\n".join(combined_text_parts)
RECURSIVE CombinedText(_)
CombinedText(files) ==
    IF Len(files) = 0 THEN <<>>
    ELSE IF Len(files) = 1 THEN MarkedText(files[1])
    ELSE Cat(Cat(MarkedText(files[1]), NL), CombinedText(Tail(files)))

\* Whether every file of the upload is read without an exception.
AllRead(files) ==
    \A i \in 1..Len(files) : extract_text_from_file_with_location(files[i]).raises = "none"

\* The uploads of the bulk endpoint, and the upload of the single-file endpoint.
BulkUploads ==
    { <<FileA>>, <<FileA, FileB>>, <<FileTxt>>, <<FileA, FileTxt>>, <<FileTxt, FileA>>,
      <<FileCorrupt>> }
FileUploads == { <<FileA>>, <<FileTxt>>, <<FileCorrupt>> }

\* The documents of the bulk calls: those above and the combined text of every
\* upload that is read without an exception.
BulkDocs ==
    {DocOne, DocTwo, DocThree, DocLongLine}
        \cup { CombinedText(files) : files \in { u \in BulkUploads : AllRead(u) } }
FileTypes == {"pdf", "docx"}

\* The id of an answer: whether it starts with "q" and whether the rest is an integer.
AnswerId(q, int, n) == [q |-> q, int |-> int, n |-> n]
Qid(n) == AnswerId(TRUE, TRUE, n)

Citation(docName, page, snippet) ==
    [t |-> "dict", docName |-> docName, page |-> page, snippet |-> snippet]

Answer(id, answer, confidence, citation) ==
    [id |-> id, answer |-> answer, confidence |-> confidence, citation |-> citation]

\* The strings a response of chunk i carries: each names its chunk.
ValueTag == <<"v1", "v2", "v3", "v4", "v5", "v6", "v7", "v8", "v9">>
SnippetTag == <<"s1", "s2", "s3", "s4", "s5", "s6", "s7", "s8", "s9">>
Cite(i) == Citation(JStr("doc"), JNum(i), JStr(SnippetTag[i]))
Found(n, i, conf) == Answer(Qid(n), JStr(ValueTag[i]), conf, Cite(i))

\* What the model call of chunk i may do.
Outcomes(i) ==
    { [kind |-> "transport_error", answers |-> <<>>],
      [kind |-> "bad_json", answers |-> <<>>],
      [kind |-> "ok", answers |-> <<>>],
      [kind |-> "ok", answers |-> <<Found(1, i, JNum(0))>>],
      [kind |-> "ok", answers |-> <<Found(1, i, JNum(3))>>],
      [kind |-> "ok", answers |-> <<Found(1, i, JNum(9)), Found(2, i, JNum(3))>>],
      [kind |-> "ok", answers |-> <<Found(1, i, JNull)>>],
      [kind |-> "ok", answers |-> <<Answer(Qid(1), JNull, JAbsent, Cite(i)),
                                     Answer(Qid(2), JBool(TRUE), JAbsent, JAbsent)>>],
      [kind |-> "ok", answers |-> <<Answer(Qid(7), JStr(ValueTag[i]), JNum(9), Cite(i)),
                                     Answer(AnswerId(FALSE, FALSE, 0), JStr(ValueTag[i]),
                                            JNum(9), Cite(i)),
                                     Found(2, i, JNum(9))>>],
      [kind |-> "ok", answers |-> <<Found(2, i, JNum(3)),
                                     Answer(AnswerId(TRUE, FALSE, 0), JStr(ValueTag[i]),
                                            JNum(9), Cite(i))>>] }

\* location_data built from the citation; None when nothing was put in it.
NoLocation == [t |-> "null"]
LocationOf(citation, ftype) ==
    LET cit == IF citation.t = "dict" THEN citation
               ELSE Citation(JAbsent, JAbsent, JAbsent)
        page == IF Truthy(cit.page) THEN cit.page ELSE JAbsent
    IN  IF ~(Truthy(cit.page) /\ ftype \in {"pdf", "docx"}) /\ ~Truthy(cit.snippet)
           /\ ~Truthy(cit.docName)
        THEN NoLocation
        ELSE [t |-> "dict",
              page_number |-> IF ftype = "pdf" THEN page ELSE JAbsent,
              paragraph_number |-> IF ftype = "docx" THEN page ELSE JAbsent,
              context |-> IF Truthy(cit.snippet) THEN cit.snippet ELSE JAbsent,
              docName |-> IF Truthy(cit.docName) THEN cit.docName ELSE JAbsent]

\* next((q for q in questions if q['id'] == q_num), None)
HasQuestion(qs, n) == \E i \in 1..Len(qs) : qs[i].id = n
OriginalQ(qs, n) == qs[CHOOSE i \in 1..Len(qs) : qs[i].id = n /\ \A j \in 1..(i - 1) : qs[j].id # n]

\* Variant: a dropdown answer is never replaced by the option it matches.
FinalValue_AsReturned(q, v) ==
    IF q.type = "yesno"
    THEN (IF v.t = "bool" THEN JStr(IF v.b THEN "Yes" ELSE "No") ELSE v)
    ELSE v

\* Conversion of the answer value by question type.
FinalValue(q, v) ==
    IF q.type = "yesno"
    THEN (IF v.t = "bool" THEN JStr(IF v.b THEN "Yes" ELSE "No") ELSE v)
    ELSE IF q.type = "dropdown" /\ v.t = "str"
         THEN LET opts == q.options
                  same == { i \in 1..Len(opts) : Lower(opts[i]) = Lower(v.s) }
              IN  IF (\E i \in 1..Len(opts) : opts[i] = v.s) \/ opts = <<>> \/ same = {}
                  THEN v
                  ELSE (IF opts[SetMin(same)] # "" THEN JStr(opts[SetMin(same)]) ELSE v)
         ELSE v

AnswerData(q, answer, ftype) ==
    [question_id |-> q.id,
     field |-> q.text,
     value |-> PyStr(FinalValue(q, answer.answer)),
     confidence |-> GetOr(answer.confidence, JNum(0)),
     location |-> LocationOf(answer.citation, ftype)]

\* The for loop of process_chunk over the answers: the dict built so far and
\* whether an exception ended the loop (int() of an id that is no number behind
\* the "q"; citation.get on a citation that is truthy and no object).
RECURSIVE ParseAnswers(_, _, _, _, _)
ParseAnswers(answers, i, qs, ftype, acc) ==
    IF i > Len(answers) THEN [res |-> acc, raised |-> FALSE]
    ELSE LET a == answers[i]
         IN  IF ~a.id.q THEN ParseAnswers(answers, i + 1, qs, ftype, acc)
             ELSE IF ~a.id.int THEN [res |-> acc, raised |-> TRUE]
             ELSE IF a.answer.t \in {"null", "absent"}
                  THEN ParseAnswers(answers, i + 1, qs, ftype, acc)
             ELSE IF ~HasQuestion(qs, a.id.n)
                  THEN ParseAnswers(answers, i + 1, qs, ftype, acc)
             ELSE IF a.citation.t # "dict" /\ Truthy(a.citation)
                  THEN [res |-> acc, raised |-> TRUE]
             ELSE ParseAnswers(answers, i + 1, qs, ftype,
                               [n \in DOMAIN acc \cup {a.id.n} |->
                                   IF n = a.id.n
                                   THEN AnswerData(OriginalQ(qs, n), a, ftype)
                                   ELSE acc[n]])

\* The dict process_chunk returns: empty after any exception.
EmptyDict == [n \in {} |-> NoLocation]
process_chunk(outcome, qs, ftype) ==
    IF outcome.kind # "ok" THEN EmptyDict
    ELSE LET parsed == ParseAnswers(outcome.answers, 1, qs, ftype, EmptyDict)
         IN  IF parsed.raised THEN EmptyDict ELSE parsed.res

\* Variant: the first candidate seen is never replaced.
ShouldKeep_FirstOnly(has_existing, existing_conf, confidence) ==
    IF ~has_existing THEN "keep"
    ELSE IF confidence.t # "num" \/ existing_conf.t # "num" THEN "TypeError"
    ELSE "skip"

\* Variant: a later candidate of equal confidence replaces the earlier one.
ShouldKeep_LaterWinsTies(has_existing, existing_conf, confidence) ==
    IF ~has_existing THEN "keep"
    ELSE IF confidence.t # "num" \/ existing_conf.t # "num" THEN "TypeError"
    ELSE IF confidence.n >= existing_conf.n THEN "keep"
    ELSE "skip"

\* The three-way test of the merge loop: "keep", "skip", or "TypeError" when a
\* confidence that is not a number is compared.
ShouldKeep(has_existing, existing_conf, confidence) ==
    IF ~has_existing THEN "keep"
    ELSE IF confidence.t # "num" \/ existing_conf.t # "num" THEN "TypeError"
    ELSE IF confidence.n > existing_conf.n THEN "keep"
    ELSE IF confidence.n > 0 /\ existing_conf.n = 0 THEN "keep"
    ELSE "skip"

\* The merge loop for question n over the chunk results from index i on.
RECURSIVE MergeFrom(_, _, _, _, _)
MergeFrom(results, i, n, has, best) ==
    IF i > Len(results) THEN [has |-> has, best |-> best, raised |-> FALSE]
    ELSE IF n \notin DOMAIN results[i] THEN MergeFrom(results, i + 1, n, has, best)
    ELSE LET cand == results[i][n]
             verdict == ShouldKeep(has, IF has THEN best.confidence ELSE JNum(0),
                                   cand.confidence)
         IN  IF verdict = "TypeError" THEN [has |-> has, best |-> best, raised |-> TRUE]
             ELSE IF verdict = "keep" THEN MergeFrom(results, i + 1, n, TRUE, cand)
             ELSE MergeFrom(results, i + 1, n, has, best)

NotFound(q) ==
    [question_id |-> q.id, field |-> q.text, value |-> JNull, confidence |-> JNum(0),
     location |-> NoLocation]

MergeOne(results, n) == MergeFrom(results, 1, n, FALSE, NotFound([id |-> n, text |-> ""]))

AnsweredIds(results) == UNION { DOMAIN results[i] : i \in 1..Len(results) }

\* all_results after the merge loop, and whether the loop raised.
MergeRaises(results) == \E n \in AnsweredIds(results) : MergeOne(results, n).raised
MergeAll(results) ==
    [n \in { m \in AnsweredIds(results) : MergeOne(results, m).has } |->
        MergeOne(results, n).best]

\* Variant: only the questions that were answered are emitted.
Format_AnsweredOnly(qs, merged) ==
    LET idx == SelectSeq([i \in 1..Len(qs) |-> i], LAMBDA i : qs[i].id \in DOMAIN merged)
    IN  [k \in 1..Len(idx) |-> merged[qs[idx[k]].id]]

\* formatted_results: one record per question, in the order submitted.
Format(qs, merged) ==
    [i \in 1..Len(qs) |->
        IF qs[i].id \in DOMAIN merged THEN merged[qs[i].id] ELSE NotFound(qs[i])]

\* The entry of a chunk whose model call has not settled.
NoResponse == [kind |-> "none", answers |-> <<>>]

Task(st, kind, res, calls) == [st |-> st, kind |-> kind, res |-> res, calls |-> calls]

\* Variant: only json.JSONDecodeError is caught.
ExceptHandled_JsonOnly(kind) == kind \in {"bad_json"}

\* The except clauses of process_chunk: json.JSONDecodeError, then Exception.
ExceptHandled(kind) == kind \in {"bad_json"} \/ TRUE

\* Variant: a failed call is issued again.
AfterFailure_Retry(task, kind) == Task("pending", "none", EmptyDict, task.calls)

\* What a task does after its model call failed: it is done, with the empty dict.
AfterFailure(task, kind) == Task("done", kind, EmptyDict, task.calls)

\* Variant: the calls are issued one after the other.
MayDispatch_Sequential(ts, i) ==
    ts[i].st = "pending" /\ \A j \in 1..(i - 1) : ts[j].st = "done"

\* Whether the call of task i may be issued: every task is scheduled by
\* asyncio.gather at once, none waits for another.
MayDispatch(ts, i) == ts[i].st = "pending"

\* Variant: the merge starts as soon as one task has settled.
GatherDone_FirstCompleted(ts) == ts = <<>> \/ \E i \in 1..Len(ts) : ts[i].st = "done"

\* Whether asyncio.gather returns: every task has settled.
GatherDone(ts) == \A i \in 1..Len(ts) : ts[i].st = "done"

\* Variant: the results are listed in the order the tasks finished.
ResultsList_AsCompleted(ts) == [k \in 1..Len(completed) |-> ts[completed[k]].res]

\* chunk_results_list: asyncio.gather lists the results in the order of chunk_tasks.

ResultsList(ts) == [i \in 1..Len(ts) |-> ts[i].res]

chunk_idle == UNCHANGED <<chunk_cache, c_pc, c_mode, c_caller, document_text,
                          chunk_size_tokens, overlap_tokens, start, chunks, c_ret, c_hit, c_tick>>

\* OPENAI_API_KEY is not set: the call raises before anything else.
BulkNoKey ==
    /\ b_pc = "idle"
    /\ f_pc = "idle"
    /\ c_pc = "idle"
    /\ \E qs \in Batches, ft \in FileTypes :
          /\ questions' = qs
          /\ file_type' = ft
    /\ b_pc' = "raised"
    /\ b_error' = "ValueError"
    /\ tasks' = <<>>
    /\ responses' = <<>>
    /\ completed' = <<>>
    /\ all_results' = EmptyDict
    /\ formatted_results' = <<>>
    /\ chunk_idle
    /\ UNCHANGED <<harness_vars, field_vars, req_vars, proc_vars>>

\* The call starts: the budget is computed and the document is chunked.
BulkStart ==
    /\ b_pc = "idle"
    /\ f_pc = "idle"
    /\ c_pc = "idle"
    /\ \E doc \in BulkDocs, qs \in Batches, ft \in FileTypes :
          /\ questions' = qs
          /\ file_type' = ft
          /\ EnterChunkDocumentCached(doc, max_doc_tokens_per_chunk(qs), BULK_OVERLAP_TOKENS)
    /\ c_caller' = "bulk"
    /\ b_pc' = "chunking"
    /\ b_error' = "none"
    /\ tasks' = <<>>
    /\ responses' = <<>>
    /\ completed' = <<>>
    /\ all_results' = EmptyDict
    /\ formatted_results' = <<>>
    /\ UNCHANGED <<harness_vars, field_vars, req_vars, proc_vars>>

\* chunk_tasks is built and handed to asyncio.gather.
BulkGather ==
    /\ b_pc = "chunking"
    /\ c_pc = "ret"
    /\ c_caller = "bulk"
    /\ c_pc' = "idle"
    /\ tasks' = [i \in 1..Len(c_ret) |-> Task("pending", "none", EmptyDict, 0)]
    /\ responses' = [i \in 1..Len(c_ret) |-> NoResponse]
    /\ completed' = <<>>
    /\ b_pc' = "gather"
    /\ UNCHANGED <<chunk_cache, c_mode, c_caller, document_text, chunk_size_tokens,
                   overlap_tokens, start, chunks, c_ret, c_hit, c_tick>>
    /\ UNCHANGED <<b_error, questions, file_type, all_results, formatted_results>>
    /\ UNCHANGED <<harness_vars, field_vars, req_vars, proc_vars>>

\* Task i runs up to its await: the model call of chunk i is issued.
DispatchTask(i) ==
    /\ b_pc = "gather"
    /\ i \in 1..Len(tasks)
    /\ MayDispatch(tasks, i)
    /\ tasks' = [tasks EXCEPT ![i] = Task("inflight", "none", EmptyDict, @.calls + 1)]
    /\ chunk_idle
    /\ UNCHANGED <<b_pc, b_error, questions, file_type, responses, completed, all_results,
                   formatted_results>>
    /\ UNCHANGED <<harness_vars, field_vars, req_vars, proc_vars>>

Dispatch == \E i \in 1..Len(tasks) : DispatchTask(i)

\* The call of task i settles and the rest of process_chunk runs.  An exception
\* that left process_chunk would leave asyncio.gather and the bulk call at once.
Settle ==
    /\ b_pc = "gather"
    /\ \E i \in 1..Len(tasks) :
          /\ tasks[i].st = "inflight"
          /\ \E o \in Outcomes(i) :
                /\ tasks' = [tasks EXCEPT ![i] =
                               IF o.kind # "ok" THEN AfterFailure(@, o.kind)
                               ELSE Task("done", o.kind,
                                         process_chunk(o, questions, file_type), @.calls)]
                /\ responses' = [responses EXCEPT ![i] = o]
                /\ completed' = Append(completed, i)
                /\ IF o.kind # "ok" /\ ~ExceptHandled(o.kind)
                   THEN b_pc' = "raised" /\ b_error' = "Exception"
                   ELSE UNCHANGED <<b_pc, b_error>>
    /\ chunk_idle
    /\ UNCHANGED <<questions, file_type, all_results, formatted_results>>
    /\ UNCHANGED <<harness_vars, field_vars, req_vars, proc_vars>>

\* asyncio.gather returns; the merge loop and the formatting run.
BulkMerge ==
    /\ b_pc = "gather"
    /\ GatherDone(tasks)
    /\ LET results == ResultsList(tasks)
       IN  IF MergeRaises(results)
           THEN /\ b_pc' = "raised"
                /\ b_error' = "TypeError"
                /\ UNCHANGED <<all_results, formatted_results>>
           ELSE /\ b_pc' = "returned"
                /\ b_error' = "none"
                /\ all_results' = MergeAll(results)
                /\ formatted_results' = Format(questions, MergeAll(results))
    /\ chunk_idle
    /\ UNCHANGED <<questions, file_type, tasks, responses, completed>>
    /\ UNCHANGED <<harness_vars, field_vars, req_vars, proc_vars>>

(***************************************************************************)
(* extract_field_value_with_gpt                                            *)
(***************************************************************************)
FIELD_CHUNK_TOKENS == 4000
FIELD_OVERLAP_TOKENS == 200

\* Documents of the single-field calls: one chunk, three chunks, and line breaks
\* only (more than FIELD_CHUNK_TOKENS tokens, every window blank: no chunk).
FieldDocThree == <<Run("w", 40000)>>
FieldDocBlank == <<Run("nl", 5000)>>
FieldDocs == {DocOne, FieldDocThree, FieldDocBlank}

\* line_to_location_map and file_type as the callers pass them: /extract passes
\* None for both; /extract_file passes the reader's map and "pdf" or "docx".
\* The map "map" sends line 3 to page (or paragraph) 2 and holds no other line.
FieldContexts ==
    { [line_map |-> "none", file_type |-> "none"],
      [line_map |-> "map", file_type |-> "pdf"],
      [line_map |-> "map", file_type |-> "docx"] }
LineMapTruthy(lm) == lm = "map"
LineMapHas(lm, line) == lm = "map" /\ line = JNum(3)
LineMapGet(lm, line) == JNum(2)

\* The "location" of a response: an object (every key may be absent), or null.
FieldLoc(line_number, context) ==
    [t |-> "dict", line_number |-> line_number, context |-> context,
     page_number |-> JAbsent, paragraph_number |-> JAbsent]
FieldLocEmpty == FieldLoc(JAbsent, JAbsent)
FieldLocNull == [t |-> "null", line_number |-> JAbsent, context |-> JAbsent,
                 page_number |-> JAbsent, paragraph_number |-> JAbsent]

\* A model response: body is "dict" (a JSON object), "list" (JSON, but no object)
\* or "none" (the call failed or the text is no JSON).
FieldOutcome(kind, body, value, location) ==
    [kind |-> kind, body |-> body, value |-> value, location |-> location]

\* What the model call of chunk i may do.
FieldOutcomes(i) ==
    { FieldOutcome("transport_error", "none", JAbsent, FieldLocEmpty),
      FieldOutcome("bad_json", "none", JAbsent, FieldLocEmpty),
      FieldOutcome("ok", "list", JAbsent, FieldLocEmpty),
      FieldOutcome("ok", "dict", JNull, FieldLoc(JNull, JNull)),
      FieldOutcome("ok", "dict", JStr(ValueTag[i]), FieldLoc(JNum(3), JStr(SnippetTag[i]))),
      FieldOutcome("ok", "dict", JStr(ValueTag[i]), FieldLocEmpty),
      FieldOutcome("ok", "dict", JStr(ValueTag[i]), FieldLocNull),
      FieldOutcome("ok", "dict", JStr(""), FieldLoc(JNull, JNull)),
      FieldOutcome("ok", "dict", JNum(0), FieldLoc(JNum(7), JStr(SnippetTag[i]))) }

\* bool(location_data): an object with at least one key.
LocTruthy(loc) ==
    /\ loc.t = "dict"
    /\ \/ loc.line_number # JAbsent \/ loc.context # JAbsent
       \/ loc.page_number # JAbsent \/ loc.paragraph_number # JAbsent

\* The body of the try block after the call returned: result.get on something
\* that is no object, or location_data.get on null, raises AttributeError.
FieldProcess(o, lm, ftype) ==
    LET value == IF o.value = JAbsent THEN JNull ELSE o.value
        loc == o.location
        looks == LineMapTruthy(lm)
        line == IF loc.t = "dict" /\ loc.line_number # JAbsent THEN loc.line_number ELSE JNull
        enhanced ==
            IF looks /\ loc.t = "dict" /\ line # JNull /\ line.t = "num" /\ LineMapHas(lm, line)
            THEN [loc EXCEPT
                    !.page_number = IF ftype = "pdf" THEN LineMapGet(lm, line) ELSE @,
                    !.paragraph_number = IF ftype = "docx" THEN LineMapGet(lm, line) ELSE @]
            ELSE loc
    IN  IF o.kind # "ok" \/ o.body # "dict" \/ (looks /\ loc.t = "null")
        THEN [exc |-> TRUE, value |-> JNull, location |-> FieldLocNull]
        ELSE [exc |-> FALSE, value |-> value,
              location |-> IF LocTruthy(enhanced) THEN enhanced ELSE FieldLocNull]

\* if value: the chunk's value is returned at once.
FieldFound(r) == ~r.exc /\ Truthy(r.value)

FieldTask(st, resp) == [st |-> st, resp |-> resp]
FieldNoResponse == FieldOutcome("none", "none", JAbsent, FieldLocEmpty)
FieldNotFound == [value |-> JNull, location |-> FieldLocNull]

\* Variant: the key is looked up after the document has been chunked.
FieldNoKey_AfterChunking ==
    /\ f_pc = "idle"
    /\ b_pc = "idle"
    /\ c_pc = "idle"
    /\ f_pc' = "raised"
    /\ f_error' = "ValueError"
    /\ chunk_cache' = CacheStore(chunk_cache,
                                 get_cache_key(DocOne, FIELD_CHUNK_TOKENS, FIELD_OVERLAP_TOKENS,
                                               ENCODING_NAME),
                                 <<DocOne>>)
    /\ UNCHANGED <<c_pc, c_mode, c_caller, document_text, chunk_size_tokens, overlap_tokens,
                   start, chunks, c_ret, c_hit, c_tick>>
    /\ UNCHANGED <<f_line_map, f_file_type, f_tasks, f_idx, f_ret>>
    /\ UNCHANGED <<harness_vars, bulk_vars, req_vars, proc_vars>>

\* OPENAI_API_KEY is not set: the call raises before anything else.
FieldNoKey ==
    /\ f_pc = "idle"
    /\ b_pc = "idle"
    /\ c_pc = "idle"
    /\ f_pc' = "raised"
    /\ f_error' = "ValueError"
    /\ UNCHANGED <<f_line_map, f_file_type, f_tasks, f_idx, f_ret>>
    /\ chunk_idle
    /\ UNCHANGED <<harness_vars, bulk_vars, req_vars, proc_vars>>

\* The call starts: the document is chunked with the fixed budget.
FieldStart ==
    /\ f_pc = "idle"
    /\ b_pc = "idle"
    /\ c_pc = "idle"
    /\ \E doc \in FieldDocs, ctx \in FieldContexts :
          /\ f_line_map' = ctx.line_map
          /\ f_file_type' = ctx.file_type
          /\ EnterChunkDocumentCached(doc, FIELD_CHUNK_TOKENS, FIELD_OVERLAP_TOKENS)
    /\ c_caller' = "field"
    /\ f_pc' = "chunking"
    /\ UNCHANGED <<f_error, f_tasks, f_idx, f_ret>>
    /\ UNCHANGED <<harness_vars, bulk_vars, req_vars, proc_vars>>

\* chunk_document_cached has returned: the for loop begins.
FieldLoop ==
    /\ f_pc = "chunking"
    /\ c_pc = "ret"
    /\ c_caller = "field"
    /\ c_pc' = "idle"
    /\ f_tasks' = [i \in 1..Len(c_ret) |-> FieldTask("pending", FieldNoResponse)]
    /\ f_idx' = 1
    /\ f_pc' = "loop"
    /\ UNCHANGED <<chunk_cache, c_mode, c_caller, document_text, chunk_size_tokens,
                   overlap_tokens, start, chunks, c_ret, c_hit, c_tick>>
    /\ UNCHANGED <<f_error, f_line_map, f_file_type, f_ret>>
    /\ UNCHANGED <<harness_vars, bulk_vars, req_vars, proc_vars>>

\* The loop body issues the call of the chunk it is at and blocks on it.
FieldDispatch ==
    /\ f_pc = "loop"
    /\ f_idx <= Len(f_tasks)
    /\ f_tasks' = [f_tasks EXCEPT ![f_idx] = FieldTask("inflight", FieldNoResponse)]
    /\ f_pc' = "awaiting"
    /\ UNCHANGED <<f_error, f_line_map, f_file_type, f_idx, f_ret>>
    /\ chunk_idle
    /\ UNCHANGED <<harness_vars, bulk_vars, req_vars, proc_vars>>

\* The call settles: the value is returned, or the loop goes on with the next chunk.
FieldSettle ==
    /\ f_pc = "awaiting"
    /\ \E o \in FieldOutcomes(f_idx) :
          LET r == FieldProcess(o, f_line_map, f_file_type)
          IN  /\ f_tasks' = [f_tasks EXCEPT ![f_idx] = FieldTask("done", o)]
              /\ IF FieldFound(r)
                 THEN /\ f_pc' = "returned"
                      /\ f_ret' = [value |-> r.value, location |-> r.location]
                      /\ f_idx' = f_idx
                 ELSE /\ f_pc' = "loop"
                      /\ f_idx' = f_idx + 1
                      /\ f_ret' = f_ret
    /\ UNCHANGED <<f_error, f_line_map, f_file_type>>
    /\ chunk_idle
    /\ UNCHANGED <<harness_vars, bulk_vars, req_vars, proc_vars>>

\* The loop is exhausted: return None, None.
FieldReturn ==
    /\ f_pc = "loop"
    /\ f_idx > Len(f_tasks)
    /\ f_pc' = "returned"
    /\ f_ret' = FieldNotFound
    /\ UNCHANGED <<f_error, f_line_map, f_file_type, f_tasks, f_idx>>
    /\ chunk_idle
    /\ UNCHANGED <<harness_vars, bulk_vars, req_vars, proc_vars>>

(***************************************************************************)
(* The extraction endpoints and get_current_user                           *)
(***************************************************************************)
Endpoints == {"extract", "extract_file", "extract_file_bulk"}

\* A bearer token: whether its signature verifies under the secret, whether it
\* has expired, and its "sub" claim.
Token(signature, expired, sub) == [signature |-> signature, expired |-> expired, sub |-> sub]

fake_users_db == {"preyasha"}

Tokens ==
    { Token("good", FALSE, JStr("preyasha")),
      Token("forged", FALSE, JStr("preyasha")),
      Token("good", TRUE, JStr("preyasha")),
      Token("good", FALSE, JAbsent),
      Token("good", FALSE, JStr("ghost")) }

\* decode_token: raises ValueError without a secret; None on a JWTError.
decode_token(token, secret) ==
    IF ~secret THEN [raises |-> TRUE, payload |-> JNull]
    ELSE IF token.signature = "good" /\ ~token.expired
         THEN [raises |-> FALSE, payload |-> [t |-> "dict", sub |-> token.sub]]
         ELSE [raises |-> FALSE, payload |-> JNull]

\* Variant: any string names a user.
get_user_AnyName(db, username) == username.t = "str"

get_user(db, username) == username.t = "str" /\ username.s \in db

\* get_current_user: the status of the response that ends the request, 0 when the
\* user is returned. The ValueError of decode_token is caught nowhere: status 500.
get_current_user(token, secret) ==
    LET decoded == decode_token(token, secret)
    IN  IF decoded.raises THEN 500
        ELSE IF decoded.payload.t = "null" THEN 401
        ELSE IF GetOr(decoded.payload.sub, JNull).t = "null" THEN 401
        ELSE IF ~get_user(fake_users_db, decoded.payload.sub) THEN 401
        ELSE 0

\* The questions form field: a JSON list of question objects, a JSON object, or
\* text that is no JSON.
QuestionsField(json, items) == [json |-> json, items |-> items]
QuestionsFields ==
    { QuestionsField("list", <<Question(1, "Q1", "text", <<>>)>>),
      QuestionsField("object", <<>>),
      QuestionsField("invalid", <<>>) }
NoQuestionsField == QuestionsField("none", <<>>)

\* The files, the payload text and the form field a request to the endpoint carries.
UploadsOf(ep) ==
    IF ep = "extract_file_bulk" THEN BulkUploads
    ELSE IF ep = "extract_file" THEN FileUploads
    ELSE {<<>>}
TextsOf(ep) == IF ep = "extract" THEN {DocOne, FieldDocThree} ELSE {<<>>}
QuestionsOf(ep) == IF ep = "extract_file_bulk" THEN QuestionsFields ELSE {NoQuestionsField}

\* A request arrives at one of the three endpoints.
Request ==
    /\ r_pc = "idle"
    /\ b_pc = "idle"
    /\ f_pc = "idle"
    /\ c_pc = "idle"
    /\ \E ep \in Endpoints, token \in Tokens, secret \in BOOLEAN :
          /\ r_endpoint' = ep
          /\ r_token' = token
          /\ r_secret' = secret
          /\ \E files \in UploadsOf(ep), text \in TextsOf(ep), qf \in QuestionsOf(ep) :
                /\ r_files' = files
                /\ r_text' = text
                /\ r_questions' = qf
    /\ r_pc' = "auth"
    /\ r_read' = 0
    /\ r_status' = 0
    /\ chunk_idle
    /\ UNCHANGED <<harness_vars, bulk_vars, field_vars, proc_vars>>

\* Depends(get_current_user) is resolved before the endpoint body runs.
Authenticate ==
    /\ r_pc = "auth"
    /\ LET status == get_current_user(r_token, r_secret)
       IN  IF status = 0
           THEN /\ r_pc' = (IF r_endpoint = "extract" THEN "call" ELSE "files")
                /\ r_status' = 0
           ELSE /\ r_pc' = "done"
                /\ r_status' = status
    /\ UNCHANGED <<r_endpoint, r_token, r_secret, r_files, r_text, r_questions, r_read>>
    /\ chunk_idle
    /\ UNCHANGED <<harness_vars, bulk_vars, field_vars, proc_vars>>

\* The next uploaded file is read: ValueError answers 400, any other exception 500.
ReadFile ==
    /\ r_pc = "files"
    /\ r_read < Len(r_files)
    /\ LET read == extract_text_from_file_with_location(r_files[r_read + 1])
       IN  IF read.raises = "none"
           THEN /\ r_read' = r_read + 1
                /\ r_status' = 0
                /\ r_pc' = IF r_read + 1 < Len(r_files) THEN "files"
                           ELSE IF r_endpoint = "extract_file_bulk" THEN "questions"
                           ELSE "call"
           ELSE /\ r_read' = r_read
                /\ r_status' = (IF read.raises = "ValueError" THEN 400 ELSE 500)
                /\ r_pc' = "done"
    /\ UNCHANGED <<r_endpoint, r_token, r_secret, r_files, r_text, r_questions>>
    /\ chunk_idle
    /\ UNCHANGED <<harness_vars, bulk_vars, field_vars, proc_vars>>

\* Variant: the form field is handed on without the list test.
ParseQuestions_Late ==
    /\ r_pc = "questions"
    /\ r_pc' = "call"
    /\ r_status' = 0
    /\ UNCHANGED <<r_endpoint, r_token, r_secret, r_files, r_text, r_questions, r_read>>
    /\ chunk_idle
    /\ UNCHANGED <<harness_vars, bulk_vars, field_vars, proc_vars>>

\* json.loads(questions) and the list test. The HTTPException(400) is raised inside
\* the try block of the endpoint, whose "except Exception" answers 500.
ParseQuestions ==
    /\ r_pc = "questions"
    /\ IF r_questions.json = "list"
       THEN /\ r_pc' = "call"
            /\ r_status' = 0
       ELSE /\ r_pc' = "done"
            /\ r_status' = 500
    /\ UNCHANGED <<r_endpoint, r_token, r_secret, r_files, r_text, r_questions, r_read>>
    /\ chunk_idle
    /\ UNCHANGED <<harness_vars, bulk_vars, field_vars, proc_vars>>

\* The questions the bulk function is called with.
QuestionsList == IF r_questions.json = "list" THEN r_questions.items ELSE <<>>

\* await extract_bulk_questions_with_gpt(combined_text, questions_list, ...,
\* file_type=primary_file_type)
BulkEndpointCall ==
    /\ r_pc = "call"
    /\ r_endpoint = "extract_file_bulk"
    /\ BulkStart
    /\ document_text' = CombinedText(r_files)
    /\ questions' = QuestionsList
    /\ file_type' = extract_text_from_file_with_location(r_files[1]).file_type

\* The same call when OPENAI_API_KEY is not set.
BulkEndpointNoKey ==
    /\ r_pc = "call"
    /\ r_endpoint = "extract_file_bulk"
    /\ BulkNoKey
    /\ questions' = QuestionsList
    /\ file_type' = extract_text_from_file_with_location(r_files[1]).file_type

\* extract_field_value_with_gpt(...) of /extract (the text of the payload, no line
\* map, no file type) and of /extract_file (the text, line map and type of the file).
FieldEndpointCall ==
    /\ r_pc = "call"
    /\ r_endpoint \in {"extract", "extract_file"}
    /\ FieldStart
    /\ IF r_endpoint = "extract"
       THEN /\ document_text' = r_text
            /\ f_line_map' = "none"
            /\ f_file_type' = "none"
       ELSE LET read == extract_text_from_file_with_location(r_files[1])
            IN  /\ document_text' = read.text
                /\ f_line_map' = read.line_map
                /\ f_file_type' = read.file_type

\* The same call when OPENAI_API_KEY is not set.
FieldEndpointNoKey ==
    /\ r_pc = "call"
    /\ r_endpoint \in {"extract", "extract_file"}
    /\ FieldNoKey

\* The function has returned or raised: 200 with the response model built from
\* the result, 400 for a ValueError, 500 for any other exception.
Respond ==
    /\ r_pc = "call"
    /\ \/ b_pc \in {"returned", "raised"}
       \/ f_pc \in {"returned", "raised"}
    /\ r_pc' = "done"
    /\ r_status' = IF "ValueError" \in {b_error, f_error} THEN 400
                   ELSE IF "raised" \in {b_pc, f_pc} THEN 500
                   ELSE 200
    /\ UNCHANGED <<r_endpoint, r_token, r_secret, r_files, r_text, r_questions, r_read>>
    /\ chunk_idle
    /\ UNCHANGED <<harness_vars, bulk_vars, field_vars, proc_vars>>

(***************************************************************************)
(* process_chunk, the single-field try block and the response locations,   *)
(* called on their own                                                     *)
(***************************************************************************)
ProcQ1 == Question(1, "Q1", "text", <<>>)
ProcQ2 == Question(2, "Q2", "yesno", <<>>)
ProcQ3 == Question(3, "Q3", "dropdown", <<"Monthly", "Other">>)
ProcBatches == { <<ProcQ1, ProcQ2, ProcQ3>>, <<ProcQ3, ProcQ1>>, <<ProcQ2>> }

\* Entries of the "answers" list of a response.
ProcEntries ==
    { Answer(Qid(1), JStr("v1"), JNum(3), Cite(1)),
      Answer(Qid(1), JNull, JNum(3), Cite(1)),
      Answer(Qid(1), JStr("v2"), JAbsent, Citation(JNull, JNull, JNull)),
      Answer(Qid(1), JStr("v3"), JNull, Citation(JAbsent, JNum(4), JAbsent)),
      Answer(Qid(1), JNum(5), JNum(3), JNull),
      Answer(Qid(1), JStr(""), JNum(3), Citation(JStr("doc"), JNum(0), JStr(""))),
      Answer(Qid(2), JBool(TRUE), JNum(9), JAbsent),
      Answer(Qid(2), JBool(FALSE), JNum(9), Cite(2)),
      Answer(Qid(2), JStr("yes"), JNum(9), Cite(2)),
      Answer(Qid(2), JStr("v7"), JNum(3), JStr("p. 3")),
      Answer(Qid(3), JStr("Monthly"), JNum(9), Cite(3)),
      Answer(Qid(3), JStr("MONTHLY"), JNum(9), Cite(3)),
      Answer(Qid(3), JStr("Weekly"), JNum(9), Cite(3)),
      Answer(Qid(7), JStr("v4"), JNum(9), Cite(4)),
      Answer(AnswerId(FALSE, FALSE, 0), JStr("v5"), JNum(9), Cite(5)),
      Answer(AnswerId(TRUE, FALSE, 0), JStr("v6"), JNum(9), Cite(6)) }

\* Responses that parse as JSON, with up to MaxEntries entries.
MaxEntries == 2
ProcResponses == { [kind |-> "ok", answers |-> a] : a \in SeqsUpTo(ProcEntries, MaxEntries) }

\* Responses of the single-field call that carry a value: the location has a line
\* number and a context, is {}, is null, or has every key set to null.
ProcFieldOutcomes ==
    { o \in FieldOutcomes(1) : Truthy(o.value) }
        \cup { FieldOutcome("ok", "dict", JStr("v1"), FieldLoc(JNull, JNull)),
               FieldOutcome("ok", "dict", JStr("v1"), FieldLoc(JNum(8), JNull)) }

\* Variant: the location model is built from whatever object the function returned.
ResponseLocation_AnyObject(loc) ==
    IF loc.t # "dict" THEN NoLocation
    ELSE [k \in DOMAIN loc |->
             IF k = "t" THEN loc[k] ELSE IF loc[k].t = "absent" THEN JNull ELSE loc[k]]

\* main.py, the location of a response record: None, or the model built from the
\* entries that are not None; fields not given are None.
ResponseLocation(loc) ==
    IF loc.t # "dict" THEN NoLocation
    ELSE LET kept == { k \in DOMAIN loc \ {"t"} : loc[k].t \notin {"absent", "null"} }
         IN  IF kept = {} THEN NoLocation
             ELSE [k \in DOMAIN loc |->
                      IF k = "t" THEN loc[k] ELSE IF k \in kept THEN loc[k] ELSE JNull]

\* process_chunk is called with a response, a batch of questions and a file type.
ProcessChunkCall ==
    /\ p_pc = "idle"
    /\ \E o \in ProcResponses, qs \in ProcBatches, ft \in FileTypes :
          /\ p_args' = [response |-> o, questions |-> qs, file_type |-> ft]
          /\ p_result' = process_chunk(o, qs, ft)
    /\ p_pc' = "bulk"
    /\ p_out' = <<>>
    /\ chunk_idle
    /\ UNCHANGED <<harness_vars, bulk_vars, field_vars, req_vars>>

\* The try block of the single-field loop runs on a response that carries a value.
FieldProcessCall ==
    /\ p_pc = "idle"
    /\ \E o \in ProcFieldOutcomes, ctx \in FieldContexts :
          /\ p_args' = [response |-> o, line_map |-> ctx.line_map, file_type |-> ctx.file_type]
          /\ p_result' = FieldProcess(o, ctx.line_map, ctx.file_type)
    /\ p_pc' = "field"
    /\ p_out' = <<>>
    /\ chunk_idle
    /\ UNCHANGED <<harness_vars, bulk_vars, field_vars, req_vars>>

\* The endpoint builds the location of every record it answers with.
ConvertLocations ==
    /\ p_pc \in {"bulk", "field"}
    /\ p_out' = IF p_pc = "bulk"
                THEN [n \in DOMAIN p_result |-> ResponseLocation(p_result[n].location)]
                ELSE IF FieldFound(p_result)
                     THEN [n \in {0} |-> ResponseLocation(p_result.location)]
                     ELSE [n \in {} |-> NoLocation]
    /\ p_pc' = IF p_pc = "bulk" THEN "bulk_converted" ELSE "field_converted"
    /\ UNCHANGED <<p_args, p_result>>
    /\ chunk_idle
    /\ UNCHANGED <<harness_vars, bulk_vars, field_vars, req_vars>>

vars == <<chunk_vars, harness_vars, bulk_vars, field_vars, req_vars, proc_vars>>

ChunkNext == DirectCall \/ ChunkIter \/ ApiReturn
ChunkSpec == InitEmpty /\ [][ChunkNext]_vars

CacheNext == ProbeCall \/ FillCall \/ ChunkIter \/ ApiReturn
CacheSpec == InitEmpty /\ [][CacheNext]_vars

\* The cache an earlier bulk call for DocTwo with one question has left.
SeededCache ==
    LET size == max_doc_tokens_per_chunk(<<Question(1, "Q1", "text", <<>>)>>)
    IN  <<[key |-> get_cache_key(DocTwo, size, BULK_OVERLAP_TOKENS, ENCODING_NAME),
           chunks |-> chunk_document(DocTwo, size, BULK_OVERLAP_TOKENS)]>>

\* A bulk call arrives at a service whose cache is empty or holds that entry.
Init ==
    /\ chunk_cache \in {<<>>, SeededCache}
    /\ c_pc = "idle"
    /\ c_mode = "direct"
    /\ c_caller = "api"
    /\ document_text = <<>>
    /\ chunk_size_tokens = 0
    /\ overlap_tokens = 0
    /\ start = 0
    /\ chunks = <<>>
    /\ c_ret = <<>>
    /\ c_hit = FALSE
    /\ c_tick = 0
    /\ log = {}
    /\ probes = 0
    /\ fills = 0
    /\ b_pc = "idle"
    /\ b_error = "none"
    /\ questions = <<>>
    /\ file_type = "pdf"
    /\ tasks = <<>>
    /\ responses = <<>>
    /\ completed = <<>>
    /\ all_results = EmptyDict
    /\ formatted_results = <<>>
    /\ f_pc = "idle"
    /\ f_error = "none"
    /\ f_line_map = "none"
    /\ f_file_type = "none"
    /\ f_tasks = <<>>
    /\ f_idx = 1
    /\ f_ret = [value |-> [t |-> "null"], location |-> [t |-> "null"]]
    /\ r_pc = "idle"
    /\ r_endpoint = "none"
    /\ r_token = [signature |-> "none", expired |-> FALSE, sub |-> [t |-> "absent"]]
    /\ r_secret = TRUE
    /\ r_files = <<>>
    /\ r_text = <<>>
    /\ r_questions = [json |-> "none", items |-> <<>>]
    /\ r_read = 0
    /\ r_status = 0
    /\ p_pc = "idle"
    /\ p_args = <<>>
    /\ p_result = <<>>
    /\ p_out = <<>>

Next ==
    \/ BulkNoKey \/ BulkStart \/ ChunkIter \/ BulkGather \/ Dispatch \/ Settle \/ BulkMerge
    \/ FieldNoKey \/ FieldStart \/ FieldLoop \/ FieldDispatch \/ FieldSettle \/ FieldReturn
Spec == Init /\ [][Next]_vars

\* The service behind its endpoints: one request, from arrival to response.
ApiNext ==
    \/ Request \/ Authenticate \/ ReadFile \/ ParseQuestions
    \/ BulkEndpointCall \/ BulkEndpointNoKey \/ FieldEndpointCall \/ FieldEndpointNoKey
    \/ ChunkIter \/ BulkGather \/ Dispatch \/ Settle \/ BulkMerge
    \/ FieldLoop \/ FieldDispatch \/ FieldSettle \/ FieldReturn
    \/ Respond
ApiSpec == Init /\ [][ApiNext]_vars

\* The record-handling functions called on their own, each on a bounded set of inputs.
ProcNext == ProcessChunkCall \/ FieldProcessCall \/ ConvertLocations
ProcSpec == Init /\ [][ProcNext]_vars

\* The scheduling the code relies on: synchronous code runs on, the event loop
\* runs every ready task, and every model call issued settles.
\* LoopRunsOn is WF_vars(ChunkIter) with ENABLED <<ChunkIter>>_vars written out:
\* an iteration is possible exactly while the call is inside the loop.
LoopRunsOn == []<>(c_pc # "loop") \/ []<><<ChunkIter>>_vars

FairSpec ==
    /\ Spec
    /\ LoopRunsOn
    /\ WF_vars(BulkGather)
    /\ WF_vars(Dispatch)
    /\ WF_vars(Settle)
    /\ WF_vars(BulkMerge)

(***************************************************************************)
(* Properties                                                              *)
(***************************************************************************)
FailureKinds == {"transport_error", "bad_json"}
TaskIds == 1..Len(tasks)
\* The chunks whose result set holds a candidate for question n.
Cands(n) == { i \in TaskIds : n \in DOMAIN tasks[i].res }
NumericCands(n) == \A i \in Cands(n) : tasks[i].res[n].confidence.t = "num"
ConfOf(i, n) == tasks[i].res[n].confidence.n
\* The first chunk among those whose candidate for n has the highest confidence.
BestChunk(n) ==
    SetMin({ i \in Cands(n) : \A j \in Cands(n) : ConfOf(i, n) >= ConfOf(j, n) })
\* The result sets of the chunks whose call did not fail, in chunk order.
SurvivingResults ==
    LET kept == SelectSeq([i \in TaskIds |-> i], LAMBDA i : tasks[i].kind \notin FailureKinds)
    IN  [k \in 1..Len(kept) |-> tasks[kept[k]].res]

(* C1: whenever extract_bulk_questions_with_gpt returns, the list has exactly
   one record per submitted question and the i-th record carries the id of
   the i-th question, whatever the chunks did. *)
C1_OneAnswerPerQuestion ==
    b_pc = "returned" =>
        /\ Len(formatted_results) = Len(questions)
        /\ \A i \in 1..Len(questions) : formatted_results[i].question_id = questions[i].id

\* Two questions submitted in the order 2, 1; one chunk failed, one answered
\* question 1 only, so a not-found record stands first.
C1_Witness ==
    /\ b_pc = "returned"
    /\ Len(questions) = 2 /\ questions[1].id = 2 /\ questions[2].id = 1
    /\ Len(tasks) >= 2
    /\ \E i \in TaskIds : tasks[i].kind \in FailureKinds
    /\ Cands(1) # {} /\ Cands(2) = {}

(* C2: the answer returned for a question whose candidates all carry a numeric
   confidence is one of the per-chunk candidates, whole (value, confidence and
   location of the same chunk), and no candidate has a higher confidence. *)
C2_BestOfAllChunks ==
    b_pc = "returned" =>
        \A k \in 1..Len(questions) :
            LET n == questions[k].id
            IN  (Cands(n) # {} /\ NumericCands(n)) =>
                    /\ \E i \in Cands(n) : formatted_results[k] = tasks[i].res[n]
                    /\ \A i \in Cands(n) : formatted_results[k].confidence.n >= ConfOf(i, n)

\* Confidence 0.3 from an earlier chunk, 0.9 from a later one: 0.9 is returned.
C2_Witness ==
    /\ b_pc = "returned"
    /\ \E k \in 1..Len(questions) : \E i, j \in Cands(questions[k].id) :
          /\ i < j
          /\ ConfOf(i, questions[k].id) = 3
          /\ ConfOf(j, questions[k].id) = 9
          /\ formatted_results[k] = tasks[j].res[questions[k].id]

(* C3: among candidates of equal highest confidence, nonzero or zero, the one
   of the lowest-indexed chunk is the answer returned. *)
C3_FirstSeenOnTies ==
    b_pc = "returned" =>
        \A k \in 1..Len(questions) :
            LET n == questions[k].id
            IN  (Cands(n) # {} /\ NumericCands(n)) =>
                    formatted_results[k] = tasks[BestChunk(n)].res[n]

\* Two chunks report the same nonzero confidence for a question, with different
\* values; the earlier one is returned.
C3_Witness ==
    /\ b_pc = "returned"
    /\ \E k \in 1..Len(questions) : \E i, j \in Cands(questions[k].id) :
          /\ i < j
          /\ ConfOf(i, questions[k].id) = ConfOf(j, questions[k].id)
          /\ ConfOf(i, questions[k].id) > 0
          /\ tasks[i].res[questions[k].id] # tasks[j].res[questions[k].id]
          /\ BestChunk(questions[k].id) = i
          /\ formatted_results[k] = tasks[i].res[questions[k].id]

(* C4: when the model call of every chunk failed, no exception leaves
   process_chunk, the bulk call returns, and every record is the not-found
   record of its question. *)
C4_AllChunksFail ==
    /\ b_error # "Exception"
    /\ (/\ b_pc \in {"returned", "raised"}
        /\ b_error # "ValueError"
        /\ \A i \in TaskIds : tasks[i].kind \in FailureKinds)
       => /\ b_pc = "returned"
          /\ \A k \in 1..Len(questions) :
                formatted_results[k] = [question_id |-> questions[k].id,
                                        field |-> questions[k].text,
                                        value |-> JNull,
                                        confidence |-> JNum(0),
                                        location |-> [t |-> "null"]]

\* Three chunks, a transport error and a malformed response among them, two questions.
C4_Witness ==
    /\ b_pc = "returned"
    /\ Len(tasks) = 3
    /\ Len(questions) = 2
    /\ \A i \in TaskIds : tasks[i].kind \in FailureKinds
    /\ \E i, j \in TaskIds : tasks[i].kind = "transport_error" /\ tasks[j].kind = "bad_json"

(* C5: a chunk whose call failed holds the empty result set, no chunk's call is
   issued twice, and the list returned is the merge, in chunk order, of the
   result sets of the chunks that did not fail. *)
C5_FailedChunkDropped ==
    /\ \A i \in TaskIds :
          /\ tasks[i].calls = (IF tasks[i].st = "pending" THEN 0 ELSE 1)
          /\ tasks[i].kind \in FailureKinds =>
                (tasks[i].st = "done" /\ DOMAIN tasks[i].res = {})
    /\ b_pc = "returned" =>
          formatted_results = Format(questions, MergeAll(SurvivingResults))

\* Of three chunks the middle one failed and both others answered question 1.
C5_Witness ==
    /\ b_pc = "returned"
    /\ Len(tasks) = 3
    /\ tasks[2].kind \in FailureKinds
    /\ 1 \in DOMAIN tasks[1].res /\ 1 \in DOMAIN tasks[3].res
    /\ \E k \in 1..Len(questions) : questions[k].id = 1 /\ formatted_results[k].value # JNull

(* C6: the merged result is empty, and the bulk call has neither returned nor
   raised from the merge, as long as some task has not settled. *)
C6_MergeAfterBarrier ==
    (b_pc = "returned" \/ b_error = "TypeError" \/ DOMAIN all_results # {})
        => \A i \in TaskIds : tasks[i].st = "done"

\* Three chunks, all settled, and a merged entry written.
C6_Witness ==
    /\ b_pc = "returned"
    /\ Len(tasks) = 3
    /\ DOMAIN all_results # {}

(* C7: while asyncio.gather waits, the call of every task not yet started can be
   issued, whatever the state of the other tasks. *)
C7_ConcurrentDispatch ==
    \A i \in TaskIds :
        (b_pc = "gather" /\ tasks[i].st = "pending") => ENABLED DispatchTask(i)

\* The calls of all three chunks are in flight at the same time.
C7_Witness ==
    /\ b_pc = "gather"
    /\ Len(tasks) = 3
    /\ \A i \in TaskIds : tasks[i].st = "inflight"

(* C8: a bulk call that has begun chunking eventually returns its answer list,
   given that the chunker's loop, the event loop and every model call issued
   keep taking their steps. *)
C8_AlwaysCompletes == (b_pc = "chunking") ~> (b_pc = "returned")

(* C9: two completed calls of chunk_document_cached with the same text,
   chunk_size_tokens and overlap_tokens returned equal chunk lists, whatever
   calls came between them, and a call answered from the cache returns the list
   the cache holds under its key. *)
C9_Idempotent ==
    /\ \A e1, e2 \in log :
          (e1.text = e2.text /\ e1.size = e2.size /\ e1.overlap = e2.overlap)
              => e1.chunks = e2.chunks
    /\ (c_pc = "ret" /\ c_mode = "cached" /\ c_hit) =>
          \E i \in 1..Len(chunk_cache) :
              /\ chunk_cache[i].key = get_cache_key(document_text, chunk_size_tokens,
                                                    overlap_tokens, ENCODING_NAME)
              /\ chunk_cache[i].chunks = c_ret

(* C10: a direct call of chunk_document whose text has at most
   chunk_size_tokens tokens returns the one-element list holding the text,
   for every overlap. *)
C10_SingleChunk ==
    (c_pc = "ret" /\ c_mode = "direct" /\ num_tokens(document_text) <= chunk_size_tokens)
        => c_ret = <<document_text>>

\* A text of exactly chunk_size_tokens tokens, made of white space only, chunked
\* with an overlap: the list holds the text itself.
C10_Witness ==
    /\ c_pc = "ret"
    /\ c_mode = "direct"
    /\ document_text # <<>>
    /\ ~NonBlank(document_text)
    /\ num_tokens(document_text) = chunk_size_tokens
    /\ overlap_tokens > 0
    /\ c_ret = <<document_text>>

\* Whether a text holds a line break.
HasLineBreak(t) == \E i \in 1..Len(t) : t[i].k = "nl"
\* A direct call of chunk_document that went past the single-chunk return.
DirectLoopCall ==
    /\ c_mode = "direct"
    /\ c_pc \in {"loop", "ret"}
    /\ num_tokens(document_text) > chunk_size_tokens

(* C11: when the text exceeds chunk_size_tokens, every chunk emitted so far, and
   so every chunk returned, has at most chunk_size_tokens tokens or holds no
   line break. *)
C11_OverBudgetOnlySingleLine ==
    DirectLoopCall =>
        \A i \in 1..Len(chunks) :
            num_tokens(chunks[i]) <= chunk_size_tokens \/ ~HasLineBreak(chunks[i])

\* A returned list of a re-split window with a line over the budget on its own
\* and a chunk of several lines within the budget.
C11_Witness ==
    /\ DirectLoopCall
    /\ c_pc = "ret"
    /\ c_ret = chunks
    /\ \E i \in 1..Len(chunks) :
          num_tokens(chunks[i]) > chunk_size_tokens /\ ~HasLineBreak(chunks[i])
    /\ \E i \in 1..Len(chunks) :
          HasLineBreak(chunks[i]) /\ num_tokens(chunks[i]) <= chunk_size_tokens

\* The kind of the character at offset p, 0 <= p < len(t).
KindAt(t, p) == Slice(t, p, p + 1)[1].k
\* Offset p lies strictly inside a line: the characters on both sides of it
\* belong to the same line.
InsideLine(t, p) ==
    /\ 0 < p /\ p < TLen(t)
    /\ KindAt(t, p - 1) # "nl"
    /\ KindAt(t, p) # "nl"
\* The tentative cut of the window that starts at the cursor.
TentativeCut == Min2(TLen(document_text), start + max_chunk_chars(chunk_size_tokens))
\* A line break lies within the lookahead after the tentative cut.
BreakInLookahead ==
    /\ TentativeCut < TLen(document_text)
    /\ Find(document_text, TentativeCut) # -1
    /\ Find(document_text, TentativeCut) < TentativeCut + LOOKAHEAD_CHARS

(* C12: in an iteration whose tentative cut has a line break within the
   lookahead, neither the end of the window nor the start of the next window
   lies strictly inside a line. *)
C12_BoundariesAtLineBreaks ==
    [][(c_pc = "loop" /\ c_mode = "direct" /\ BreakInLookahead)
          => /\ ~InsideLine(document_text,
                            WindowEnd(document_text, chunk_size_tokens, start))
             /\ ~InsideLine(document_text, start')]_vars

\* The lines of a text, as a set.
LineSet(t) == { splitlines(t)[i] : i \in 1..Len(splitlines(t)) }

(* C13: every non-blank line of the text is a line of at least one chunk of the
   list a direct call of chunk_document returns. *)
C13_EveryLineCovered ==
    (c_pc = "ret" /\ c_mode = "direct") =>
        \A l \in LineSet(document_text) :
            NonBlank(l) => \E j \in 1..Len(c_ret) : l \in LineSet(c_ret[j])

\* Whether piece occurs in text c as a run of consecutive characters.
Occurs(piece, c) ==
    \E o \in 0..(TLen(c) - TLen(piece)) : Slice(c, o, o + TLen(piece)) = piece
\* The longest substrings the overlap is to protect: 4 * overlap_tokens
\* characters, or the whole text when it is shorter.  Every shorter substring
\* lies inside one of them.
ProtectedLen == Min2(overlap_tokens * CHARS_PER_TOKEN, TLen(document_text))

(* C14: with overlap_tokens > 0, every substring of the text of at most
   4 * overlap_tokens characters lies wholly inside at least one chunk of the
   list a direct call of chunk_document returns. *)
C14_OverlapKeepsBoundaryValues ==
    (c_pc = "ret" /\ c_mode = "direct" /\ overlap_tokens > 0) =>
        \A a \in 0..(TLen(document_text) - ProtectedLen) :
            \E j \in 1..Len(c_ret) :
                Occurs(Slice(document_text, a, a + ProtectedLen), c_ret[j])

(* C15: the cache never holds more than 10 entries; a step that changes it is a
   miss that appends one entry under a key not present, after dropping exactly
   the earliest stored entry when the cache was full; a hit leaves the cache as
   it is, order included. *)
C15_BoundedFifoCache ==
    [][/\ Len(chunk_cache') <= CACHE_LIMIT
       /\ (c_pc = "idle" /\ c_hit') => chunk_cache' = chunk_cache
       /\ chunk_cache' # chunk_cache =>
             /\ ~c_hit'
             /\ Len(chunk_cache') >= 1
             /\ LET new == chunk_cache'[Len(chunk_cache')]
                    kept == IF Len(chunk_cache) = CACHE_LIMIT
                            THEN Tail(chunk_cache) ELSE chunk_cache
                IN  /\ \A i \in 1..Len(chunk_cache) : chunk_cache[i].key # new.key
                    /\ chunk_cache' = Append(kept, new)]_vars

\* The probe entry was stored first, answered a second probe from the cache, and
\* is gone after the tenth other key came in: the full cache holds the ten others.
C15_Witness ==
    /\ c_pc = "idle"
    /\ probes = 2
    /\ fills = MaxFill
    /\ Len(chunk_cache) = CACHE_LIMIT
    /\ \A i \in 1..Len(chunk_cache) : chunk_cache[i].key[1] # Slice(TxtA, 0, KEY_PREFIX_CHARS)

\* The chunks whose call returned a JSON object with a non-null "value".
ValueCarriers ==
    { i \in 1..Len(f_tasks) :
        /\ f_tasks[i].st = "done"
        /\ f_tasks[i].resp.kind = "ok"
        /\ f_tasks[i].resp.body = "dict"
        /\ f_tasks[i].resp.value \notin {JNull, JAbsent} }

(* C16: a single-field call that returns gives the value and the location of
   the response of the lowest-indexed chunk whose response carries a non-null
   value, and gives (null, null) exactly when no response carries one. *)
C16_FirstNonNullValue ==
    f_pc = "returned" =>
        IF ValueCarriers = {}
        THEN f_ret = FieldNotFound
        ELSE LET resp == f_tasks[SetMin(ValueCarriers)].resp
             IN  /\ f_ret.value = resp.value
                 /\ IF LocTruthy(resp.location)
                    THEN /\ f_ret.location.line_number = resp.location.line_number
                         /\ f_ret.location.context = resp.location.context
                    ELSE f_ret.location = FieldLocNull

(* C17: in a single-field call at most one model call is in flight; the call of
   chunk i+1 has been issued only if the call of chunk i has settled without
   yielding a value; and after a chunk has yielded a value the call of no later
   chunk is issued. *)
C17_SequentialEarlyExit ==
    /\ Cardinality({ i \in 1..Len(f_tasks) : f_tasks[i].st = "inflight" }) <= 1
    /\ \A i \in 1..(Len(f_tasks) - 1) :
          f_tasks[i + 1].st # "pending" =>
              (f_tasks[i].st = "done" /\ i \notin ValueCarriers)
    /\ \A i, j \in 1..Len(f_tasks) :
          (i < j /\ i \in ValueCarriers) => f_tasks[j].st = "pending"

(* C18: the step in which either extraction function raises for the missing
   OPENAI_API_KEY leaves the chunk cache and the chunker as they are and no
   model call issued, and nothing of the call happens after it. *)
C18_MissingKeyRaisesFirst ==
    [][/\ (b_pc = "idle" /\ b_error' = "ValueError") =>
              /\ b_pc' = "raised"
              /\ chunk_cache' = chunk_cache
              /\ c_pc' = "idle" /\ chunks' = chunks /\ c_ret' = c_ret
              /\ tasks' = <<>>
       /\ (f_pc = "idle" /\ f_error' = "ValueError") =>
              /\ f_pc' = "raised"
              /\ chunk_cache' = chunk_cache
              /\ c_pc' = "idle" /\ chunks' = chunks /\ c_ret' = c_ret
              /\ f_tasks' = <<>>
       /\ b_error # "ValueError"
       /\ f_error # "ValueError"]_vars

\* A bulk call with two questions has raised for the missing key at a service
\* whose cache holds an entry: the entry is still the only one.
C18_Witness ==
    /\ b_pc = "raised"
    /\ b_error = "ValueError"
    /\ Len(questions) = 2
    /\ chunk_cache = SeededCache
    /\ tasks = <<>>
    /\ c_pc = "idle"

(***************************************************************************)
(* C19: input errors of the bulk endpoint                                  *)
(***************************************************************************)
\* The request is to the bulk endpoint and one of its files has an extension other
\* than .pdf/.docx in any casing, or its questions field is no JSON list.
BadBulkInput ==
    /\ r_endpoint = "extract_file_bulk"
    /\ \/ \E i \in 1..Len(r_files) : Lower(r_files[i].ext) \notin {".pdf", ".docx"}
       \/ r_questions.json # "list"

\* No chunking has started and no model call has been issued, on either path.
NothingProcessed ==
    /\ c_pc = "idle" /\ c_ret = <<>> /\ chunks = <<>>
    /\ b_pc = "idle" /\ tasks = <<>>
    /\ f_pc = "idle" /\ f_tasks = <<>>

\* C19: a request to the bulk endpoint with an unsupported file extension (in any
\* position of the upload, whatever the other files are) or with a questions field
\* that is no JSON list never reaches the extraction call: every step leaves the
\* chunk cache as it is, no chunking starts, no model call is dispatched, the
\* request keeps moving towards its response, and the response is an error (4xx/5xx).
C19_InputErrorsFailFast ==
    [][BadBulkInput' =>
          /\ chunk_cache' = chunk_cache
          /\ NothingProcessed'
          /\ r_pc' \in {"auth", "files", "questions", "done"}
          /\ (r_pc' = "files" => r_read' < Len(r_files'))
          /\ (r_pc' = "done" => r_status' >= 400)]_vars

\* An upload whose first file is a readable PDF and whose second file is a .txt:
\* the first file has been read and the request has ended with an error.
C19_Witness ==
    /\ r_endpoint = "extract_file_bulk"
    /\ r_files = <<FileA, FileTxt>>
    /\ r_questions.json = "list"
    /\ r_read = 1
    /\ r_pc = "done"
    /\ r_status = 400
    /\ chunk_cache = SeededCache

(***************************************************************************)
(* C20: the identity check in front of the three endpoints                 *)
(***************************************************************************)
\* The request carries a token that does not decode (bad signature or expired),
\* that has no subject, or whose subject is not in the user table.
UnidentifiedRequest ==
    /\ r_pc # "idle"
    /\ \/ r_token.signature # "good"
       \/ r_token.expired
       \/ r_token.sub = JAbsent
       \/ r_token.sub.t = "str" /\ r_token.sub.s \notin fake_users_db

\* The endpoint body has not run: no file read, no chunking, no model call, and
\* the step left the chunk cache as it was.
BodyNotEntered ==
    /\ r_read' = 0
    /\ NothingProcessed'
    /\ chunk_cache' = chunk_cache
    /\ r_pc' \in {"auth", "done"}

MalformedEntry(a) ==
    \/ ~(a.id.q /\ a.id.int)
    \/ a.confidence.t \notin {"num", "absent"}
    \/ a.citation.t \notin {"dict", "absent"}

\* The response without its malformed entries.
WellFormedPart(o) ==
    [o EXCEPT !.answers = SelectSeq(o.answers, LAMBDA a : ~MalformedEntry(a))]

\* The questions some malformed entry of some response is about.
QuestionsOfMalformed ==
    { n \in 0..9 : \E i \in 1..Len(responses) : \E j \in 1..Len(responses[i].answers) :
          LET a == responses[i].answers[j]
          IN  MalformedEntry(a) /\ a.id.q /\ a.id.int /\ a.id.n = n }

\* The list the call would return had the responses held no malformed entry.
AnswersWithoutMalformed ==
    Format(questions,
           MergeAll([i \in 1..Len(responses) |->
                        process_chunk(WellFormedPart(responses[i]), questions, file_type)]))

(* C21: a bulk call that got past the API-key test never raises, whatever the
   responses hold, and the answer it returns for a question that no malformed
   entry is about is the answer it would return without the malformed entries. *)
C21_PartialSuccess ==
    /\ b_pc = "raised" => b_error = "ValueError"
    /\ b_pc = "returned" =>
          \A k \in 1..Len(questions) :
              questions[k].id \notin QuestionsOfMalformed
                  => formatted_results[k] = AnswersWithoutMalformed[k]

(***************************************************************************)
(* C22: the start of the next window                                       *)
(***************************************************************************)
\* The end of the window of the running iteration, and that end moved back by
\* the overlap.
CurrentEnd == WindowEnd(document_text, chunk_size_tokens, start)
MovedBack == Max2(0, CurrentEnd - overlap_tokens * CHARS_PER_TOKEN)
\* An iteration of a direct call with an overlap whose window ends before the text does.
OverlapIteration ==
    /\ c_pc = "loop"
    /\ c_mode = "direct"
    /\ overlap_tokens > 0
    /\ CurrentEnd < TLen(document_text)
IsLineStart(t, p) == p = 0 \/ KindAt(t, p - 1) = "nl"

(* C22 as stated: the next start is a line start that is not before
   end - 4*overlap_tokens and is before end (the start snaps forward). *)
C22_SnapsForward ==
    [][OverlapIteration =>
          /\ IsLineStart(document_text, start')
          /\ start' >= CurrentEnd - overlap_tokens * CHARS_PER_TOKEN
          /\ start' < CurrentEnd]_vars

(* C22 (amended): the next start is obtained by moving back 4*overlap_tokens
   characters from the end of the window (not below 0) and then snapping backward:
   it is the position just behind the last line break before the moved-back
   position, and the moved-back position itself when no line break precedes it.
   So the next start is not after end - 4*overlap_tokens and is before end. *)
C22_SnapsBackward ==
    [][OverlapIteration =>
          /\ start' <= MovedBack
          /\ start' < CurrentEnd
          /\ ~HasLineBreak(Slice(document_text, start', MovedBack))
          /\ IF HasLineBreak(Take(document_text, MovedBack))
             THEN start' > 0 /\ KindAt(document_text, start' - 1) = "nl"
             ELSE start' = MovedBack]_vars

\* A direct call with an overlap is in its loop, at least one window has been
\* emitted, and the cursor stands at the start of a line behind a line break.
C22_Witness ==
    /\ c_pc = "loop"
    /\ c_mode = "direct"
    /\ overlap_tokens > 0
    /\ chunks # <<>>
    /\ start > 0
    /\ KindAt(document_text, start - 1) = "nl"
    /\ KindAt(document_text, start) # "nl"

(***************************************************************************)
(* C23: the result set of process_chunk                                    *)
(***************************************************************************)
\* The ids of the entries of the response that carry a value that is not null and
\* an id q<number> of a submitted question.
ValidAnswerIds(o, qs) ==
    { n \in 0..9 : \E j \in 1..Len(o.answers) :
          LET a == o.answers[j]
          IN  /\ a.id.q /\ a.id.int /\ a.id.n = n
              /\ a.answer.t \notin {"null", "absent"}
              /\ HasQuestion(qs, n) }

(* C23: the result set process_chunk returns for a response holds exactly the
   questions for which the response has an entry with a non-null value and the
   id of a submitted question; every other entry is dropped on its own. *)
C23_ExactlyTheValidAnswers ==
    p_pc = "bulk" => DOMAIN p_result = ValidAnswerIds(p_args.response, p_args.questions)

(***************************************************************************)
(* C24: type coercion in process_chunk                                     *)
(***************************************************************************)
\* The entry of the response the record of question n was built from: the last
\* one with the id q<n> and a value that is not null.
EntryOf(o, n) ==
    LET js == { j \in 1..Len(o.answers) :
                  /\ o.answers[j].id = Qid(n)
                  /\ o.answers[j].answer.t \notin {"null", "absent"} }
    IN  o.answers[SetMax(js)]

\* The options of q that equal s, and those that equal s when case is ignored.
SameOptions(q, s) == { i \in 1..Len(q.options) : q.options[i] = s }
SameIgnoringCase(q, s) == { i \in 1..Len(q.options) : Lower(q.options[i]) = Lower(s) }

(* C24: in a result set of process_chunk, the value for a yesno question is "Yes"
   for true, "No" for false and the string itself for a string; the value for a
   dropdown question is the answer itself when it equals an option, the option in
   its own casing when the answer matches one only with case ignored, and the
   answer itself when it matches no option. *)
C24_TypeCoercion ==
    p_pc = "bulk" =>
        \A n \in DOMAIN p_result :
            LET q == OriginalQ(p_args.questions, n)
                v == EntryOf(p_args.response, n).answer
                out == p_result[n].value
            IN  /\ (q.type = "yesno" /\ v.t = "bool") =>
                       out = JStr(IF v.b THEN "Yes" ELSE "No")
                /\ (q.type = "yesno" /\ v.t = "str") => out = v
                /\ (q.type = "dropdown" /\ v.t = "str") =>
                       IF SameOptions(q, v.s) # {} THEN out = v
                       ELSE IF SameIgnoringCase(q, v.s) # {}
                            THEN out = JStr(q.options[SetMin(SameIgnoringCase(q, v.s))])
                            ELSE out = v

\* A response answered a yesno question with false and a dropdown question with
\* "MONTHLY"; the result set holds "No" and "Monthly".
C24_Witness ==
    /\ p_pc = "bulk"
    /\ DOMAIN p_result = {2, 3}
    /\ EntryOf(p_args.response, 2).answer = JBool(FALSE)
    /\ EntryOf(p_args.response, 3).answer = JStr("MONTHLY")
    /\ p_result[2].value = JStr("No")
    /\ p_result[3].value = JStr("Monthly")

(***************************************************************************)
(* C25: location records                                                   *)
(***************************************************************************)
\* A citation field that is given: not null, not left out, not 0 and not "".
Given(v) == v.t \notin {"null", "absent"} /\ v # JNum(0) /\ v # JStr("")

\* The citation of an entry as an object: nothing is given in it when the entry
\* has no citation or a null one.
CitationOf(a) ==
    IF a.citation.t = "dict" THEN a.citation ELSE Citation(JAbsent, JAbsent, JAbsent)

\* A location that is an object with at least one field holding a value.
HasSomeField(loc) ==
    /\ loc.t = "dict"
    /\ \E k \in DOMAIN loc \ {"t"} : loc[k].t \notin {"null", "absent"}

\* Field k of a location, null when there is no location.
LocField(loc, k) == IF loc.t = "dict" THEN loc[k] ELSE JAbsent

(* C25: in a result set of process_chunk the given page of the citation is the
   page_number for a pdf and the paragraph_number for a docx (and the other of
   the two is not set), the given snippet is the context and the given docName is
   the docName; a field that is not given is not set.  On the bulk path and on
   the single-field path, the location of a record is null or an object with at
   least one field that holds a value, in what the function returns to the
   endpoint (bulk) and in what the endpoint answers (both); it is null in the
   answer exactly when the function's location holds no value. *)
C25_LocationRecords ==
    /\ p_pc \in {"bulk", "bulk_converted"} =>
          \A n \in DOMAIN p_result :
              LET c == CitationOf(EntryOf(p_args.response, n))
                  loc == p_result[n].location
                  page == IF Given(c.page) THEN c.page ELSE JAbsent
              IN  /\ LocField(loc, "page_number")
                        = (IF p_args.file_type = "pdf" THEN page ELSE JAbsent)
                  /\ LocField(loc, "paragraph_number")
                        = (IF p_args.file_type = "docx" THEN page ELSE JAbsent)
                  /\ LocField(loc, "context") = (IF Given(c.snippet) THEN c.snippet ELSE JAbsent)
                  /\ LocField(loc, "docName") = (IF Given(c.docName) THEN c.docName ELSE JAbsent)
                  /\ loc = NoLocation \/ HasSomeField(loc)
    /\ p_pc = "bulk_converted" =>
          \A n \in DOMAIN p_result :
              /\ p_out[n] = NoLocation \/ HasSomeField(p_out[n])
              /\ p_out[n] = NoLocation <=> ~HasSomeField(p_result[n].location)
    /\ p_pc = "field_converted" =>
          \A n \in DOMAIN p_out :
              /\ p_out[n] = NoLocation \/ HasSomeField(p_out[n])
              /\ p_out[n] = NoLocation <=> ~HasSomeField(p_result.location)

\* The single-field call returned a value with a location whose keys are all
\* null, and the endpoint answers with no location.
C25_Witness ==
    /\ p_pc = "field_converted"
    /\ p_result.location.t = "dict"
    /\ p_result.location.line_number = JNull
    /\ p_result.location.context = JNull
    /\ p_out[0] = NoLocation

(***************************************************************************)
(* C26: progress of the window cursor                                      *)
(***************************************************************************)
(* C26: every iteration of the while loop of a direct call of chunk_document
   leaves the cursor start strictly greater than it found it, for every
   chunk_size_tokens >= 1 and overlap_tokens >= 0 (so the loop ends). *)
C26_CursorAdvances ==
    [][(c_pc = "loop" /\ c_mode = "direct" /\ chunk_size_tokens >= 1 /\ overlap_tokens >= 0)
          => start' > start]_vars


(* C27: a call of chunk_document_cached returns the list chunk_document gives
   for the call's own text, chunk_size_tokens and overlap_tokens; the chunks of
   another text or of other parameters are never returned. *)
C27_CacheIsTransparent ==
    (c_pc = "ret" /\ c_mode = "cached")
        => c_ret = chunk_document(document_text, chunk_size_tokens, overlap_tokens)


(* C28: when the text exceeds chunk_size_tokens, every chunk emitted so far,
   and so every chunk returned, holds a character that is not white space,
   also when the window re-split by lines begins with an empty line. *)
C28_NoBlankChunk ==
    DirectLoopCall => \A i \in 1..Len(chunks) : NonBlank(chunks[i])


\* The dicts of the chunks, in chunk order, computed from the responses alone.
ResultsByIndex ==
    [i \in 1..Len(responses) |-> process_chunk(responses[i], questions, file_type)]

(* C29: the list a bulk call returns is the merge, in chunk index order, of what
   each chunk's response yields: it is the same whatever the order in which the
   concurrent chunk calls finished. *)
C29_OrderIndependent ==
    (b_pc = "returned")
        => formatted_results = Format(questions, MergeAll(ResultsByIndex))

\* A returned call over three chunks whose last chunk finished first, where the
\* first and the last chunk answered the first question with the same
\* confidence: the answer of the first chunk is the one returned.
C29_Witness ==
    /\ b_pc = "returned"
    /\ Len(completed) = 3
    /\ completed[1] = 3
    /\ responses[1] = [kind |-> "ok", answers |-> <<Found(1, 1, JNum(3))>>]
    /\ responses[3] = [kind |-> "ok", answers |-> <<Found(1, 3, JNum(3))>>]
    /\ \E k \in 1..Len(formatted_results) : formatted_results[k].value = JStr(ValueTag[1])
    /\ \A k \in 1..Len(formatted_results) : formatted_results[k].value # JStr(ValueTag[3])


(* C30: on the bulk endpoint, once the uploads are read, a questions field that
   is not valid JSON or is not a JSON list ends the request with status 400,
   not 500. *)
C30_BadQuestionsAnswer400 ==
    [][(r_pc = "questions" /\ r_endpoint = "extract_file_bulk" /\ r_questions.json # "list")
          => (r_pc' = "done" /\ r_status' = 400)]_vars

====
